---- MODULE Spec2Model ----
(***************************************************************************)
(* Session orchestration of the intercom manager: the HTTP handlers of     *)
(* api_productions.ts (POST/PATCH/DELETE /session, heartbeat, line routes, *)
(* long poll) over the document store of db/mongodb.ts, the media bridge   *)
(* and the production manager.                                             *)
(*                                                                         *)
(* Every `await` of a handler is a step boundary: one action per stretch   *)
(* of code between two awaits, so that requests interleave as they do on   *)
(* the event loop.                                                         *)
(***************************************************************************)
EXTENDS Integers, Sequences, FiniteSets, TLC

\* ------------------------------------------------------------------ bounds
NumPost == 2          \* concurrent POST /session requests
MaxTicks == 2         \* millisecond ticks of the clock that are told apart
MaxFaults == 1        \* bridge calls that may fail or answer incompletely
NumAdd == 2           \* concurrent add-line requests
NumDel == 1           \* concurrent delete-line requests
NumPoll == 2          \* concurrent long-poll requests
MaxBridges == 2       \* media bridge definitions handed to the pool
MaxFailures == 3      \* failures in a row that are told apart
MaxPending == 2       \* probes of one instance in flight that are told apart
NumDocs == 2          \* session documents in the CouchDB database
MaxRev == 3           \* revisions of one CouchDB document
\* The highest value the 'productions' counter reaches.
MaxSeq == 3

\* --------------------------------------------------------- program constants
\* A loop bound one larger than the handler's.
PatchRetriesMore == 5 + 1
PatchRetries == 5                      \* re-reads of the session record
SESSION_PRUNE_SECONDS == 7200          \* TTL of the lastSeenAt index
TimeoutMs == 25000                     \* long-poll bound

LineIds == {1, 2}     \* the lines of the production at start
Posts == 1..NumPost
Patches == {1}
Adds == 1..NumAdd
Dels == 1..NumDel
Polls == 1..NumPoll
PruneMs == SESSION_PRUNE_SECONDS * 1000

VARIABLES
  now,         \* Date.now(), in ms
  nextUuid,    \* uuidv4(): the next value never handed out before
  production,  \* the stored production document: [lines: Seq(line)]
  sessions,    \* the 'sessions' collection: session id -> document
  everSaved,   \* ids for which a session document was ever stored
  smb,         \* the bridge: conferences, endpoints, and its call log
  queue,       \* ConnectionQueue: key -> operations pending under it
  faults,      \* bridge faults injected so far
  post,        \* POST /session requests in flight
  patch,       \* PATCH /session/:sessionId requests in flight
  hb,          \* the last GET /heartbeat/:sessionId and its answer
  del,         \* the last DELETE /session/:sessionId and its answer
  addLine,     \* POST /production/:productionId/line requests in flight
  delLine,     \* DELETE /production/:productionId/line/:lineId requests
  poll,        \* long-poll participant requests
  lastActive,  \* the active set computed by the previous sweep
  bridges,     \* MediaBridgePool.bridges: the instances, in configured order
  poolState,   \* how the construction of the pool ended
  history,     \* per instance, the failures in a row seen so far
  selected,    \* the last getBridge call and what it returned
  probing,     \* per instance, the probes whose fetch has not settled
  silent,      \* the instances that have stopped answering
  sweep,       \* the last reconciliation sweep: how it ended, what it found
  snap,        \* the snapshots a caller of the pool holds
  metadata,    \* per instance, the contents of its metadata object
  couch,       \* the CouchDB backend: session documents and calls in progress
  dbCall,      \* the last call made to both backends alike, and its results
  seqs,        \* the 'productions' counter, the stored ids, the addProduction calls
  http         \* the request to a production or line route that is being served

\* The state of the media bridge pool, and all the rest.
probeVars == <<probing, silent>>

poolVars == <<bridges, poolState, history, selected, probeVars>>

snapVars == <<snap, metadata>>

notSnapVars == <<now, nextUuid, production, sessions, everSaved, smb, queue,
                 faults, post, patch, hb, del, addLine, delLine, poll,
                 lastActive, sweep, couch, dbCall, seqs, http>>

notPoolVars == <<notSnapVars, snapVars>>

vars == <<now, nextUuid, production, sessions, everSaved, smb, queue, faults,
          post, patch, hb, del, addLine, delLine, poll, lastActive, poolVars, sweep, snapVars, couch, dbCall, seqs, http>>

\* What the POST /session handler never writes.
notPost == <<now, patch, hb, del, addLine, delLine, poll, lastActive, poolVars, sweep, snapVars, couch, dbCall, seqs, http>>

\* ------------------------------------------------------------------ helpers
Drop(f, k) == [x \in DOMAIN f \ {k} |-> f[x]]

Put(f, k, v) == IF k \in DOMAIN f THEN [f EXCEPT ![k] = v] ELSE f @@ (k :> v)

\* production.lines.find((line) => line.id === lineId)
getLine(lines, lineId) ==
  IF \E i \in DOMAIN lines : lines[i].id = lineId
  THEN lines[CHOOSE i \in DOMAIN lines :
               /\ lines[i].id = lineId
               /\ \A j \in DOMAIN lines : lines[j].id = lineId => i <= j]
  ELSE [id |-> 0, name |-> "", smbConferenceId |-> 0]

hasLine(lines, lineId) == \E i \in DOMAIN lines : lines[i].id = lineId

\* ------------------------------------------------------------- db/mongodb.ts
\* A mutation of setLineConferenceId that forgets the assignment.
setLineConferenceIdLost(lines, lineId, conferenceId) == lines

\* setLineConferenceId: line.smbConferenceId = conferenceId on the production
\* read before, then $set { lines } as a whole.
setLineConferenceId(lines, lineId, conferenceId) ==
  [i \in DOMAIN lines |->
     IF lines[i].id = lineId /\ lines[i] = getLine(lines, lineId)
     THEN [lines[i] EXCEPT !.smbConferenceId = conferenceId]
     ELSE lines[i]]

\* saveUserSession: updateOne(..., { upsert: true }); lastSeenAt follows lastSeen.
saveUserSession(S, sessionId, userSession) ==
  Put(S, sessionId, userSession)

\* A mutation of updateSession that upserts.
updateSessionUpsert(S, sessionId, updates) ==
  IF sessionId \in DOMAIN S
  THEN [S EXCEPT ![sessionId] =
          [f \in DOMAIN S[sessionId] |->
             IF f \in DOMAIN updates THEN updates[f] ELSE S[sessionId][f]]]
  ELSE S @@ (sessionId :>
          [f \in {"lineId", "smbConferenceId", "isActive", "isExpired",
                  "lastSeen", "endpointId", "sessionDescription"} |->
             IF f \in DOMAIN updates THEN updates[f]
             ELSE IF f \in {"isActive", "isExpired", "sessionDescription"}
                  THEN FALSE ELSE 0])

\* updateSession: updateOne({ _id }, { $set }) without upsert; only the fields
\* named in updates change, a missing document stays missing.
updateSession(S, sessionId, updates) ==
  IF sessionId \in DOMAIN S
  THEN [S EXCEPT ![sessionId] =
          [f \in DOMAIN S[sessionId] |->
             IF f \in DOMAIN updates THEN updates[f] ELSE S[sessionId][f]]]
  ELSE S

\* updateSession's result: res.matchedCount === 1
updateSessionMatched(S, sessionId) == sessionId \in DOMAIN S

\* deleteUserSession: deleteOne({ _id }); deletedCount === 1
deleteUserSession(S, sessionId) == Drop(S, sessionId)

\* getSession: findOne({ _id }) or null; of the document, the fields the
\* handlers read.
NoSession == [lineId |-> 0]

getSession(S, sessionId) ==
  IF sessionId \in DOMAIN S
  THEN [lineId |-> S[sessionId].lineId,
        endpointId |-> S[sessionId].endpointId,
        sessionDescription |-> S[sessionId].sessionDescription]
  ELSE NoSession

\* ---------------------------------------------------------- ConnectionQueue
\* A mutation of queueAsync that puts the newcomer first.
queueAsyncFront(Q, key, op) ==
  IF key \in DOMAIN Q THEN [Q EXCEPT ![key] = <<op>> \o @]
  ELSE Q @@ (key :> <<op>>)

\* One queue of pending operations per key; the head is the one in flight.
queueAsync(Q, key, op) ==
  IF key \in DOMAIN Q THEN [Q EXCEPT ![key] = Append(@, op)]
  ELSE Q @@ (key :> <<op>>)

\* A mutation of settle that keeps the entry of a key whose queue is empty.
settleKeepsKey(Q, key) == [Q EXCEPT ![key] = Tail(@)]

\* The head's operation settled: the next one may start; an empty queue is
\* dropped.
settle(Q, key) ==
  IF Len(Q[key]) = 1 THEN Drop(Q, key) ELSE [Q EXCEPT ![key] = Tail(@)]

\* A mutation of inFlight that lets every queued operation run.
inFlightAny(Q, key, op) ==
  key \in DOMAIN Q /\ \E i \in DOMAIN Q[key] : Q[key][i] = op

\* A mutation of inFlight with one turn for all keys: the lowest key first.
inFlightGlobal(Q, key, op) ==
  key \in DOMAIN Q /\ Head(Q[key]) = op /\ \A k \in DOMAIN Q : key <= k

\* The operation at the head of its key's queue is the one that runs.
inFlight(Q, key, op) ==
  key \in DOMAIN Q /\ Head(Q[key]) = op

\* ------------------------------------------------------------------- uuidv4
\* A mutation of uuidv4 that hands out one value again and again.
uuidv4Fixed(n) == 1

\* uuidv4(): a value no earlier call returned
uuidv4(n) == n

\* ------------------------------------------------------- POST /session steps
IdlePost == [pc |-> "idle", lineId |-> 0, sessionId |-> 0,
             smbConferenceId |-> 0, endpointId |-> 0, endpoint |-> "none",
             lines |-> <<>>, status |-> 0, sdp |-> FALSE, fault |-> FALSE,
             conferenceCalls |-> 0, endpointCalls |-> 0]

IdlePatch == [pc |-> "idle", sessionId |-> 0, userSession |-> NoSession,
              i |-> 0, reads |-> 0, smbConferenceId |-> 0, status |-> 0,
              smbCalls |-> 0, wrote |-> FALSE]

IdleAdd == [pc |-> "idle", name |-> "", lines |-> <<>>, status |-> 0,
            body |-> <<>>]

IdleDel == [pc |-> "idle", lineId |-> 0, lines |-> <<>>, status |-> 0,
            refused |-> FALSE]

IdlePoll == [pc |-> "idle", lineId |-> 0, start |-> 0, deadline |-> 0,
             woken |-> "", snapshot |-> <<>>, status |-> 0,
             listeners |-> 0, timer |-> FALSE]

NoSelection == [affinityKey |-> <<>>, allowUnhealthy |-> FALSE,
                healthy |-> {}, id |-> 0]

\* A CouchDB document that was never stored, a call that is not in progress,
\* and the database before the server has chosen its backend.
NoDoc == [rev |-> 0, deleted |-> FALSE, isActive |-> FALSE, lastSeen |-> 0,
          lastSeenAt |-> 0]

NoCall == [op |-> "none", sessionId |-> 0, lastSeen |-> 0, mongo |-> FALSE,
           couch |-> FALSE]

IdleCall == [pc |-> "idle", sessionId |-> 0, rev |-> 0, result |-> "none"]

NoCouch == [backend |-> "none", docs |-> [sid \in 1..NumDocs |-> NoDoc],
            upd |-> IdleCall, del |-> IdleCall]

\* request.user of a request that no authentication hook has given a user.
NoUser == [scopes |-> {"none"}]

\* No request is being served.
NoRequest == [pc |-> "idle", route |-> "", user |-> NoUser, status |-> 0,
              ran |-> FALSE, changed |-> FALSE]

\* An addProduction call that is not running.
NoSeqCall == [pc |-> "idle", value |-> 0, rev |-> 0, id |-> 0]

\* No counter document, no production, no call.
NoSeqs == [counter |-> [value |-> 0, rev |-> 0, deleted |-> FALSE],
           stored |-> {}, gone |-> {}, assigned |-> <<>>,
           conflicted |-> FALSE, deletes |-> 0,
           call |-> [a \in Adds |-> NoSeqCall]]

NoSweep == [outcome |-> "none", findings |-> <<>>, notified |-> 0,
            changed |-> 0]

Init ==
  /\ now = 0
  /\ nextUuid = 1
  /\ production = [lines |-> <<[id |-> 1, name |-> "a", smbConferenceId |-> 0],
                               [id |-> 2, name |-> "b", smbConferenceId |-> 0]>>]
  /\ sessions = <<>>
  /\ everSaved = {}
  /\ smb = [conferences |-> {}, endpoints |-> {}, configured |-> {},
            allocated |-> [l \in LineIds |-> {}],
            calls |-> [l \in LineIds |-> 0]]
  /\ queue = <<>>
  /\ faults = 0
  /\ post = [r \in Posts |-> IdlePost]
  /\ patch = [p \in Patches |-> IdlePatch]
  /\ hb = [n |-> 0, sessionId |-> 0, status |-> 0]
  /\ del = [sessionId |-> 0, status |-> 0]
  /\ addLine = [a \in Adds |-> IdleAdd]
  /\ delLine = [d \in Dels |-> IdleDel]
  /\ poll = [q \in Polls |-> IdlePoll]
  /\ lastActive = {}
  /\ bridges = <<>>
  /\ poolState = [st |-> "none", given |-> 0, configured |-> 0]
  /\ history = <<>>
  /\ selected = NoSelection
  /\ probing = [i \in 1..MaxBridges |-> 0]
  /\ silent = {}
  /\ sweep = NoSweep
  /\ snap = <<>>
  /\ metadata = [i \in 1..MaxBridges |-> 0]
  /\ couch = NoCouch
  /\ dbCall = NoCall
  /\ seqs = NoSeqs
  /\ http = NoRequest

\* ------------------------------------------------------------ POST /session
SetPost(r, rec) == post' = [post EXCEPT ![r] = rec]

\* A mutation of the catch block that lets the handler go on where it was.
Fail500Again(r) == post[r]

\* catch (err): reply.code(500); the handler is over.
Fail500(r) == [post[r] EXCEPT !.pc = "done", !.status = 500, !.fault = TRUE]

\* const sessionId = uuidv4(); coreFunctions.createConferenceForLine(...) is
\* submitted to the queue under the line's key.
PostSession(r) ==
  /\ post[r].pc = "idle"
  /\ IF r = 1 THEN TRUE ELSE post[r - 1].pc # "idle"
  /\ \E l \in LineIds :
       /\ SetPost(r, [post[r] EXCEPT !.pc = "queued", !.lineId = l,
                                     !.sessionId = uuidv4(nextUuid)])
       /\ queue' = queueAsync(queue, l, r)
  /\ nextUuid' = nextUuid + 1
  /\ UNCHANGED <<production, sessions, everSaved, smb, faults, notPost>>

\* createConferenceForLine, once its turn under the key has come: the line is
\* read, and a line that already has a conference id is answered with it.
CreateConferenceForLine(r) ==
  /\ post[r].pc = "queued"
  /\ inFlight(queue, post[r].lineId, r)
  /\ LET line == getLine(production.lines, post[r].lineId) IN
       IF ~hasLine(production.lines, post[r].lineId)
       THEN /\ SetPost(r, Fail500(r))
            /\ queue' = settle(queue, post[r].lineId)
       ELSE IF line.smbConferenceId # 0
       THEN /\ SetPost(r, [post[r] EXCEPT !.pc = "create",
                               !.smbConferenceId = line.smbConferenceId])
            /\ queue' = settle(queue, post[r].lineId)
       ELSE /\ SetPost(r, [post[r] EXCEPT !.pc = "allocate"])
            /\ UNCHANGED queue
  /\ UNCHANGED <<nextUuid, production, sessions, everSaved, smb, faults, notPost>>

\* smb.allocateConference: the bridge creates a conference, or the call fails
\* and the handler answers 500.
AllocateConference(r) ==
  /\ post[r].pc = "allocate"
  /\ \/ LET c == Cardinality(smb.conferences) + 1 IN
          /\ smb' = [smb EXCEPT !.conferences = @ \cup {c},
                                !.allocated[post[r].lineId] = @ \cup {c},
                                !.calls[post[r].lineId] = @ + 1]
          /\ SetPost(r, [post[r] EXCEPT !.pc = "setread",
                                        !.smbConferenceId = c,
                                        !.conferenceCalls = @ + 1])
          /\ UNCHANGED <<queue, faults>>
     \/ /\ faults < MaxFaults
        /\ faults' = faults + 1
        /\ SetPost(r, [Fail500(r) EXCEPT !.conferenceCalls = @ + 1])
        /\ queue' = settle(queue, post[r].lineId)
        /\ smb' = [smb EXCEPT !.calls[post[r].lineId] = @ + 1]
  /\ UNCHANGED <<nextUuid, production, sessions, everSaved, notPost>>

\* setLineConferenceId, first await: const production = await getProduction();
\* assert(line) throws when the line is gone.
SetLineRead(r) ==
  /\ post[r].pc = "setread"
  /\ IF hasLine(production.lines, post[r].lineId)
     THEN /\ SetPost(r, [post[r] EXCEPT !.pc = "setwrite",
                                        !.lines = production.lines])
          /\ UNCHANGED queue
     ELSE /\ SetPost(r, Fail500(r))
          /\ queue' = settle(queue, post[r].lineId)
  /\ UNCHANGED <<nextUuid, production, sessions, everSaved, smb, faults,
                 notPost>>

\* setLineConferenceId, second await: updateOne({ $set: { lines } }); the
\* queued operation settles and the conference id is returned.
SetLineWrite(r) ==
  /\ post[r].pc = "setwrite"
  /\ production' = [production EXCEPT !.lines =
       setLineConferenceId(post[r].lines, post[r].lineId,
                           post[r].smbConferenceId)]
  /\ queue' = settle(queue, post[r].lineId)
  /\ SetPost(r, [post[r] EXCEPT !.pc = "create", !.lines = <<>>])
  /\ UNCHANGED <<nextUuid, sessions, everSaved, smb, faults, notPost>>

\* productionManager.createUserSession: a new session record is stored.
NewUserSession(r) ==
  [lineId |-> post[r].lineId, smbConferenceId |-> post[r].smbConferenceId,
   isActive |-> FALSE, isExpired |-> FALSE, lastSeen |-> now,
   endpointId |-> 0, sessionDescription |-> FALSE]

CreateUserSession(r) ==
  /\ post[r].pc = "create"
  /\ sessions' = saveUserSession(sessions, post[r].sessionId, NewUserSession(r))
  /\ everSaved' = everSaved \cup {post[r].sessionId}
  /\ SetPost(r, [post[r] EXCEPT !.pc = "endpoint"])
  /\ UNCHANGED <<nextUuid, production, smb, queue, faults, notPost>>

\* What createEndpoint may give: a full description, one without audio, one
\* without audio.ssrcs, or a thrown error.
EndpointOutcomes == {"full", "noaudio", "nossrcs", "failed"}

\* A mutation of the handler's checks that takes any description.
descriptionCompleteAny(e) == TRUE

\* if (!endpoint.audio) throw ...; if (!endpoint.audio.ssrcs) throw ...
descriptionComplete(e) == e # "noaudio" /\ e # "nossrcs"

\* const endpointId = uuidv4(); coreFunctions.createEndpoint(...); a thrown
\* error, or a description without audio or without ssrcs, ends in the catch
\* block with 500.
CreateEndpoint(r) ==
  /\ post[r].pc = "endpoint"
  /\ nextUuid' = nextUuid + 1
  /\ LET endpointId == uuidv4(nextUuid) IN
     \E e \in EndpointOutcomes :
       /\ e # "full" => faults < MaxFaults
       /\ faults' = IF e # "full" THEN faults + 1 ELSE faults
       /\ smb' = IF e = "failed" THEN smb
                 ELSE [smb EXCEPT !.endpoints =
                         @ \cup {<<post[r].smbConferenceId, endpointId>>}]
       /\ IF e # "failed" /\ descriptionComplete(e)
          THEN SetPost(r, [post[r] EXCEPT !.pc = "update",
                                          !.endpointId = endpointId,
                                          !.endpoint = e,
                                          !.endpointCalls = @ + 1])
          ELSE SetPost(r, [Fail500(r) EXCEPT !.endpointId = endpointId,
                                             !.endpoint = e,
                                             !.endpointCalls = @ + 1])
  /\ UNCHANGED <<production, sessions, everSaved, queue, notPost>>

\* dbManager.updateSession(sessionId, { endpointId, sessionDescription,
\* isActive: true, lastSeen: Date.now() })
PostUpdates(r) ==
  [endpointId |-> post[r].endpointId, sessionDescription |-> TRUE,
   isActive |-> TRUE, lastSeen |-> now]

PostUpdateSession(r) ==
  /\ post[r].pc = "update"
  /\ sessions' = updateSession(sessions, post[r].sessionId, PostUpdates(r))
  /\ SetPost(r, [post[r] EXCEPT !.pc = "connect"])
  /\ UNCHANGED <<nextUuid, production, everSaved, smb, queue, faults, notPost>>

\* coreFunctions.createConnection: the sdp offer, or none; 201 or 400.
CreateConnection(r) ==
  /\ post[r].pc = "connect"
  /\ \/ /\ SetPost(r, [post[r] EXCEPT !.pc = "done", !.status = 201,
                                      !.sdp = TRUE])
        /\ UNCHANGED faults
     \/ /\ faults < MaxFaults
        /\ faults' = faults + 1
        /\ SetPost(r, [post[r] EXCEPT !.pc = "done", !.status = 400,
                                      !.fault = TRUE])
  /\ UNCHANGED <<nextUuid, production, sessions, everSaved, smb, queue, notPost>>

\* --------------------------------------------------- PATCH /session/:sessionId
SetPatch(p, rec) == patch' = [patch EXCEPT ![p] = rec]

\* What the PATCH /session handler never writes.
notPatch == <<nextUuid, production, everSaved, queue, post, hb, del, addLine,
              delLine, poll, lastActive, poolVars, sweep, snapVars, couch, dbCall, seqs, http>>

\* An id for which no session was ever created.
UnknownId == 0

\* The loop condition: i < 5 && (!userSession || !userSession.sessionDescription)
RetryWanted(p) ==
  /\ patch[p].i < PatchRetries
  /\ IF patch[p].userSession = NoSession THEN TRUE
     ELSE ~patch[p].userSession.sessionDescription

\* let userSession = await dbManager.getSession(sessionId)
PatchSession(p) ==
  /\ patch[p].pc = "idle"
  /\ \E sid \in everSaved \cup {UnknownId} :
       SetPatch(p, [patch[p] EXCEPT !.pc = "loop", !.sessionId = sid,
                                    !.userSession = getSession(sessions, sid),
                                    !.reads = 1])
  /\ UNCHANGED <<now, sessions, smb, faults, notPatch>>

\* One turn of the retry loop: wait 100 ms, read the session again.
PatchRetry(p) ==
  /\ patch[p].pc = "loop"
  /\ RetryWanted(p)
  /\ SetPatch(p, [patch[p] EXCEPT !.i = @ + 1, !.reads = @ + 1,
                    !.userSession = getSession(sessions, patch[p].sessionId)])
  /\ UNCHANGED <<now, sessions, smb, faults, notPatch>>

\* dbManager.updateSession(sessionId, { isActive: true, lastSeen: Date.now() })
PatchUpdates == [isActive |-> TRUE, lastSeen |-> now]

\* After the loop: 410 for a session that was not found, else the session is
\* updated.
PatchUpdateSession(p) ==
  /\ patch[p].pc = "loop"
  /\ ~RetryWanted(p)
  /\ IF patch[p].userSession = NoSession
     THEN /\ SetPatch(p, [patch[p] EXCEPT !.pc = "done", !.status = 410])
          /\ UNCHANGED sessions
     ELSE /\ sessions' = updateSession(sessions, patch[p].sessionId, PatchUpdates)
          /\ SetPatch(p, [patch[p] EXCEPT !.pc = "require",
                 !.wrote = updateSessionMatched(sessions, patch[p].sessionId)])
  /\ UNCHANGED <<now, smb, faults, notPatch>>

\* requireProduction, requireLine, and the two checks of the stored endpoint:
\* each of them throws, which answers 500.
PatchRequire(p) ==
  /\ patch[p].pc = "require"
  /\ LET u == patch[p].userSession IN
       IF /\ hasLine(production.lines, u.lineId)
          /\ u.sessionDescription
          /\ u.endpointId # 0
       THEN SetPatch(p, [patch[p] EXCEPT !.pc = "answer",
              !.smbConferenceId =
                 getLine(production.lines, u.lineId).smbConferenceId])
       ELSE SetPatch(p, [patch[p] EXCEPT !.pc = "done", !.status = 500])
  /\ UNCHANGED <<now, sessions, smb, faults, notPatch>>

\* coreFunctions.handleAnswerRequest: the answer is applied to the endpoint on
\* the bridge (configureEndpoint), or the call fails and the handler answers 500.
HandleAnswerRequest(p) ==
  /\ patch[p].pc = "answer"
  /\ \/ /\ smb' = [smb EXCEPT !.configured = @ \cup
                      {<<patch[p].smbConferenceId,
                         patch[p].userSession.endpointId>>}]
        /\ SetPatch(p, [patch[p] EXCEPT !.pc = "done", !.status = 204,
                                        !.smbCalls = @ + 1])
        /\ UNCHANGED faults
     \/ /\ faults < MaxFaults
        /\ faults' = faults + 1
        /\ SetPatch(p, [patch[p] EXCEPT !.pc = "done", !.status = 500,
                                        !.smbCalls = @ + 1])
        /\ UNCHANGED smb
  /\ UNCHANGED <<now, sessions, notPatch>>

\* ------------------------------------------------- GET /heartbeat/:sessionId
\* productionManager.updateUserLastSeen: false for a session that does not
\* exist or is expired; else lastSeen becomes the current time.
isLive(S, sessionId) == sessionId \in DOMAIN S /\ ~S[sessionId].isExpired

updateUserLastSeen(S, sessionId, t) ==
  IF isLive(S, sessionId)
  THEN updateSession(S, sessionId, [lastSeen |-> t])
  ELSE S

\* A mutation of the heartbeat's answer that is always 200.
heartbeatReplyOk(status) == 200

\* if (status) reply.code(200).send('ok') else reply.code(410)
heartbeatReply(status) == IF status THEN 200 ELSE 410

Heartbeat ==
  /\ \E sid \in everSaved \cup {UnknownId} :
       /\ sessions' = updateUserLastSeen(sessions, sid, now)
       /\ hb' = [n |-> 1 - hb.n, sessionId |-> sid,
                 status |-> heartbeatReply(isLive(sessions, sid))]
  /\ UNCHANGED <<now, nextUuid, production, everSaved, smb, queue, faults,
                 post, patch, del, addLine, delLine, poll, lastActive, poolVars, sweep, snapVars, couch, dbCall, seqs, http>>

\* ---------------------------------------------------- DELETE /session/:sessionId
\* deleteUserSession's result decides between 200 and the thrown 500.
DeleteSession ==
  /\ \E sid \in everSaved \cup {UnknownId} :
       /\ sessions' = deleteUserSession(sessions, sid)
       /\ del' = [sessionId |-> sid,
                  status |-> IF sid \in DOMAIN sessions THEN 200 ELSE 500]
  /\ UNCHANGED <<now, nextUuid, production, everSaved, smb, queue, faults,
                 post, patch, hb, addLine, delLine, poll, lastActive, poolVars, sweep, snapVars, couch, dbCall, seqs, http>>

\* ------------------------------------- POST /production/:productionId/line
\* The names a request may ask for; "a" is the name of a line at start.
AddNames == {"a", "c", "d"}

\* What the line handlers never write.
notLine == <<now, nextUuid, sessions, everSaved, smb, queue, faults, post,
             patch, hb, del, poll, lastActive, poolVars, sweep, snapVars, couch, dbCall, seqs, http>>

\* updateProduction: updateOne({ _id }, { $set: production }), the document as
\* a whole.
updateProduction(stored, doc) == doc

MaxId(lines) ==
  IF lines = <<>> THEN 0
  ELSE CHOOSE m \in {lines[i].id : i \in DOMAIN lines} :
         \A i \in DOMAIN lines : lines[i].id <= m

\* productionManager.addProductionLine: the new line is appended to the
\* production it was handed.
addProductionLine(lines, name) ==
  Append(lines, [id |-> MaxId(lines) + 1, name |-> name, smbConferenceId |-> 0])

\* production.lines.find((line) => line.name === request.body.name)
findName(lines, name) == \E i \in DOMAIN lines : lines[i].name = name

\* const production = await productionManager.requireProduction(...)
AddRequire(a) ==
  /\ addLine[a].pc = "idle"
  /\ \E name \in AddNames :
       addLine' = [addLine EXCEPT ![a] =
                     [@ EXCEPT !.pc = "check", !.name = name,
                               !.lines = production.lines]]
  /\ UNCHANGED <<production, delLine, notLine>>

\* The name is looked up in the production that was read: 400, or
\* addProductionLine, which stores the production with the line appended.
AddLine(a) ==
  /\ addLine[a].pc = "check"
  /\ IF findName(addLine[a].lines, addLine[a].name)
     THEN /\ addLine' = [addLine EXCEPT ![a] =
                           [@ EXCEPT !.pc = "done", !.status = 400]]
          /\ UNCHANGED production
     ELSE LET added == addProductionLine(addLine[a].lines, addLine[a].name) IN
          /\ production' = updateProduction(production, [lines |-> added])
          /\ addLine' = [addLine EXCEPT ![a] =
                           [@ EXCEPT !.pc = "reply", !.lines = added]]
  /\ UNCHANGED <<delLine, notLine>>

\* getAllLinesResponse(production) and reply.code(200).send(...)
AddReply(a) ==
  /\ addLine[a].pc = "reply"
  /\ addLine' = [addLine EXCEPT ![a] =
                   [@ EXCEPT !.pc = "done", !.status = 200,
                             !.body = addLine[a].lines]]
  /\ UNCHANGED <<production, delLine, notLine>>

AddStep(a) == AddRequire(a) \/ AddLine(a) \/ AddReply(a)

\* --------------------------- DELETE /production/:productionId/line/:lineId
\* The line ids a request may name; 3 is the id of no line at start.
DelLineIds == LineIds \cup {3}

\* productionManager.getActiveUsers: the sessions that are not expired.
getActiveUsers(S) == {sid \in DOMAIN S : ~S[sid].isExpired}

\* A mutation of the filter that forgets the line.
activeUsersOnAnyLine(S, users, lineId) == {sid \in users : S[sid].isActive}

\* activeUsers.filter((s) => s.lineId === line.id && s.isActive)
activeUsersOnLine(S, users, lineId) ==
  {sid \in users : S[sid].lineId = lineId /\ S[sid].isActive}

\* productionManager.deleteProductionLine: the line is taken out of the
\* production it was handed.
deleteProductionLine(lines, lineId) ==
  SelectSeq(lines, LAMBDA line : line.id # lineId)

\* requireProduction and getLine: 404 for a line the production has not. A
\* request that was refused with 400 may be sent again.
DelLineRequire(d) ==
  /\ delLine[d].pc \in {"idle", "done"}
  /\ \E l \in DelLineIds :
       /\ delLine[d].pc = "done" => l = delLine[d].lineId
       /\ delLine' = [delLine EXCEPT ![d] =
            IF hasLine(production.lines, l)
            THEN [@ EXCEPT !.pc = "users", !.lineId = l, !.status = 0,
                           !.lines = production.lines]
            ELSE [@ EXCEPT !.pc = "done", !.lineId = l, !.status = 404,
                           !.lines = <<>>]]
  /\ delLine[d].pc = "done" => delLine[d].status = 400
  /\ UNCHANGED <<production, addLine, notLine>>

\* await getActiveUsers(productionId), the filter, and the 400.
DelLineUsers(d) ==
  /\ delLine[d].pc = "users"
  /\ delLine' = [delLine EXCEPT ![d] =
       IF activeUsersOnLine(sessions, getActiveUsers(sessions),
                            delLine[d].lineId) # {}
       THEN [@ EXCEPT !.pc = "done", !.status = 400, !.lines = <<>>,
                      !.refused = TRUE]
       ELSE [@ EXCEPT !.pc = "delete"]]
  /\ UNCHANGED <<production, addLine, notLine>>

\* await deleteProductionLine(production, lineId); reply 200 'deleted'.
DelLineDelete(d) ==
  /\ delLine[d].pc = "delete"
  /\ production' = updateProduction(production,
       [lines |-> deleteProductionLine(delLine[d].lines, delLine[d].lineId)])
  /\ delLine' = [delLine EXCEPT ![d] =
                   [@ EXCEPT !.pc = "done", !.status = 200, !.lines = <<>>]]
  /\ UNCHANGED <<addLine, notLine>>

DelLineStep(d) == DelLineRequire(d) \/ DelLineUsers(d) \/ DelLineDelete(d)

\* --------------------------------------------------------------- the clock
\* Time passes by d ms, up to the horizon of the model.
Tick(d, horizon) ==
  /\ now + d <= horizon
  /\ \A q \in Polls : poll[q].pc = "waiting" => now + d <= poll[q].deadline
  /\ now' = now + d
  /\ UNCHANGED <<nextUuid, production, sessions, everSaved, smb, queue, faults,
                 post, patch, hb, del, addLine, delLine, poll, lastActive, poolVars, sweep, snapVars, couch, dbCall, seqs, http>>

TickMs == Tick(1, MaxTicks)

TickPrune == Tick(PruneMs, PruneMs + MaxTicks)

\* ------------------------------------------------------- storage-level expiry
\* The TTL index on lastSeenAt removes a session SESSION_PRUNE_SECONDS after
\* it was last seen.
PruneSession ==
  /\ \E sid \in DOMAIN sessions :
       /\ now - sessions[sid].lastSeen >= PruneMs
       /\ sessions' = Drop(sessions, sid)
  /\ UNCHANGED <<now, nextUuid, production, everSaved, smb, queue, faults,
                 post, patch, hb, del, addLine, delLine, poll, lastActive, poolVars, sweep, snapVars, couch, dbCall, seqs, http>>

\* ------------------------------------------------------ reconciliation sweep
\* What one sweep may find for a session: nothing new, the endpoint
\* disconnected, traffic on the endpoint, or the heartbeat deadline missed.
Findings(S, sid) ==
  {"same"}
    \cup (IF S[sid].endpointId # 0 THEN {"disconnected", "traffic"} ELSE {})
    \cup (IF now > S[sid].lastSeen THEN {"missed"} ELSE {})

Swept(u, finding) ==
  CASE finding = "disconnected" -> [u EXCEPT !.isActive = FALSE]
    [] finding = "traffic" -> [u EXCEPT !.isActive = TRUE]
    [] finding = "missed" -> [u EXCEPT !.isExpired = TRUE]
    [] OTHER -> u

ActiveSet(S) == {sid \in DOMAIN S : S[sid].isActive /\ ~S[sid].isExpired}

Tracked(S) == {sid \in DOMAIN S : ~S[sid].isExpired}

\* A mutation of onChange that leaves the request waiting.
onChangeIgnored(p) == p

\* productionManager.once('users:change', onChange): one more listener of
\* the request is registered.
once(p) == [p EXCEPT !.listeners = @ + 1]

\* A mutation of the timer's callback that leaves the listener registered.
offKept(p) == p

\* productionManager.off('users:change', onChange)
off(p) == [p EXCEPT !.listeners = IF @ > 0 THEN @ - 1 ELSE 0]

\* clearTimeout(timer)
clearTimeout(p) == [p EXCEPT !.timer = FALSE]

\* const onChange = () => { clearTimeout(timer); resolve(); }; resolve() of
\* a promise that is resolved already does nothing.
onChange(p) ==
  IF p.pc = "waiting"
  THEN [clearTimeout(p) EXCEPT !.pc = "read", !.woken = "change"]
  ELSE clearTimeout(p)

\* emit('users:change'): every registered listener is called; a listener
\* registered with once is removed before it is called.
Emit(P) ==
  [q \in DOMAIN P |->
     IF P[q].listeners > 0 THEN onChange([P[q] EXCEPT !.listeners = 0])
     ELSE P[q]]

\* A mutation of the sweep that gives up at the first endpoint whose query
\* failed: the sessions after it, in the order of their ids, are left out.
processedUntilFailure(T, f) ==
  {sid \in T : \A x \in T : f[x] = "failed" => sid < x}

\* The sessions one sweep works on: every tracked one, whatever query failed.
processed(T, f) == T

\* A mutation of the notification: one for each session that joined or left
\* the active set.
notificationsPerChange(prev, cur) ==
  Cardinality((prev \ cur) \cup (cur \ prev))

\* The notifications of one sweep: a single one if the active set differs from
\* the previous sweep's.
notifications(prev, cur) == IF cur # prev THEN 1 ELSE 0

\* One sweep with findings f: each session worked on is marked, the active set
\* is computed and compared with the previous sweep's.
Sweeping(f) ==
  /\ sessions' = [sid \in DOMAIN sessions |->
                    IF sid \in processed(Tracked(sessions), f)
                    THEN Swept(sessions[sid], f[sid])
                    ELSE sessions[sid]]
  /\ lastActive' = ActiveSet(sessions')
  /\ poll' = IF notifications(lastActive, lastActive') > 0 THEN Emit(poll)
             ELSE poll

\* productionManager.checkUserStatus: one sweep over the tracked sessions, and
\* one notification when the active set differs from the previous sweep's.
CheckUserStatus ==
  /\ \E f \in [Tracked(sessions) -> {"same", "disconnected", "traffic", "missed"}] :
       /\ \A sid \in Tracked(sessions) : f[sid] \in Findings(sessions, sid)
       /\ Sweeping(f)
  /\ UNCHANGED <<now, nextUuid, production, everSaved, smb, queue, faults,
                 post, patch, hb, del, addLine, delLine, poolVars, sweep, snapVars, couch, dbCall, seqs, http>>

\* What one sweep may find for a session when bridge queries may fail: the
\* findings above, or the query of the endpoint failed.
SweepFindings(S, sid) ==
  Findings(S, sid) \cup (IF S[sid].endpointId # 0 THEN {"failed"} ELSE {})

\* How a sweep ends: a storage failure is logged and the tick is skipped.
sweepOutcome(storage) == IF storage = "failed" THEN "skipped" ELSE "done"

\* setInterval(() => productionManager.checkUserStatus(...), 2_000): one tick
\* of the sweep, with bridge queries and storage calls that may fail. The
\* timer's callback catches nothing, so what is said here of failures is
\* checkUserStatus' own doing.
SweepTick ==
  /\ \/ /\ \E f \in [Tracked(sessions) ->
                      {"same", "disconnected", "traffic", "missed", "failed"}] :
             /\ \A sid \in Tracked(sessions) :
                  f[sid] \in SweepFindings(sessions, sid)
             /\ Sweeping(f)
             /\ sweep' = [outcome |-> sweepOutcome("ok"), findings |-> f,
                          notified |-> notifications(lastActive, lastActive'),
                          changed |-> Cardinality({sid \in DOMAIN sessions :
                                        sessions'[sid] # sessions[sid]})]
     \/ /\ sweep' = [outcome |-> sweepOutcome("failed"), findings |-> <<>>,
                     notified |-> 0, changed |-> 0]
        /\ UNCHANGED <<sessions, lastActive, poll>>
  /\ UNCHANGED <<now, nextUuid, production, everSaved, smb, queue, faults,
                 post, patch, hb, del, addLine, delLine, poolVars,
                 snapVars, couch, dbCall, seqs, http>>

\* --------------- POST /production/:productionId/line/:lineId/participants
\* What the long poll never writes.
notPoll == <<now, nextUuid, production, sessions, everSaved, smb, queue,
             faults, post, patch, hb, del, addLine, delLine, lastActive, poolVars, sweep, snapVars, couch, dbCall, seqs, http>>

\* A mutation of the query that matches expired sessions too.
getSessionsByQueryAny(S, lineId) ==
  {sid \in DOMAIN S : S[sid].lineId = lineId}

\* dbManager.getSessionsByQuery({ productionId, lineId, isExpired: false })
getSessionsByQuery(S, lineId) ==
  {sid \in DOMAIN S : S[sid].lineId = lineId /\ ~S[sid].isExpired}

RECURSIVE SetToSeq(_)
SetToSeq(ids) ==
  IF ids = {} THEN <<>>
  ELSE LET x == CHOOSE y \in ids : TRUE IN <<x>> \o SetToSeq(ids \ {x})

\* dbSessions.map(...): sessionId, endpointId and isActive of each session.
participants(S, ids) ==
  [i \in 1..Cardinality(ids) |->
     LET sid == SetToSeq(ids)[i] IN
     [sessionId |-> sid, endpointId |-> S[sid].endpointId,
      isActive |-> S[sid].isActive]]

\* sortParticipants: by name, then by session id; the sessions of the model
\* have no name, so the session id decides.
sortParticipants(ps) == SortSeq(ps, LAMBDA a, b : a.sessionId < b.sessionId)

\* The line in request.params: the requests watch the two lines in turn.
PollLine(q) == {((q - 1) % 2) + 1}

\* The handler arms its timer and subscribes: setTimeout(..., timeoutMs) and
\* productionManager.once('users:change', onChange).
PollStart(q) ==
  /\ poll[q].pc = "idle"
  /\ IF q = 1 THEN TRUE ELSE poll[q - 1].pc # "idle"
  /\ \E l \in PollLine(q) :
       poll' = [poll EXCEPT ![q] =
                  once([@ EXCEPT !.pc = "waiting", !.lineId = l,
                                 !.start = now, !.timer = TRUE,
                                 !.deadline = now + TimeoutMs])]
  /\ UNCHANGED notPoll

\* The timer fires: off('users:change', onChange); resolve().
PollTimeout(q) ==
  /\ poll[q].timer
  /\ now >= poll[q].deadline
  /\ poll' = [poll EXCEPT ![q] =
       off([@ EXCEPT !.timer = FALSE,
                     !.pc = IF @ = "waiting" THEN "read" ELSE @,
                     !.woken = IF poll[q].pc = "waiting" THEN "timeout"
                               ELSE @])]
  /\ UNCHANGED notPoll

\* await getSessionsByQuery(...); reply.code(200).send(sortParticipants(...))
PollRead(q) ==
  /\ poll[q].pc = "read"
  /\ poll' = [poll EXCEPT ![q] =
       [@ EXCEPT !.pc = "done", !.status = 200,
                 !.snapshot = sortParticipants(participants(sessions,
                                getSessionsByQuery(sessions, poll[q].lineId)))]]
  /\ UNCHANGED notPoll

PollStep(q) == PollStart(q) \/ PollTimeout(q) \/ PollRead(q)

\* Time passes until the next timer of a waiting long poll is due.
PollTick ==
  /\ \E q \in Polls : poll[q].pc = "waiting" /\ now < poll[q].deadline
  /\ \E q \in Polls :
       /\ poll[q].pc = "waiting"
       /\ \A o \in Polls : poll[o].pc = "waiting"
                             => poll[q].deadline <= poll[o].deadline
       /\ now' = poll[q].deadline
  /\ UNCHANGED <<nextUuid, production, sessions, everSaved, smb, queue, faults,
                 post, patch, hb, del, addLine, delLine, poll, lastActive, poolVars, sweep, snapVars, couch, dbCall, seqs, http>>

\* ------------------------------------------------------ media_bridge_pool.ts
\* Weights are numbers, not only whole ones: the model counts every weight
\* in halves, and scales by two the numbers that are compared with weights.
Halves(n) == 2 * n

\* definition.weight as configured, in halves: none or 0, and 1.5; an
\* instance is named by its position.
DefWeights == {0, 3}

SeqsUpTo(S, n) == UNION {[1..k -> S] : k \in 0..n}

\* new MediaBridgeInstance(definition): weight = Math.max(1, weight ?? 1),
\* healthy = true, consecutiveFailures = 0
MediaBridgeInstance(id, weight) ==
  [id |-> id, weight |-> IF weight > Halves(1) THEN weight ELSE Halves(1),
   healthy |-> TRUE,
   consecutiveFailures |-> 0]

\* get state()
state(b) ==
  IF ~b.healthy THEN "unhealthy"
  ELSE IF b.consecutiveFailures > 0 THEN "degraded"
  ELSE "healthy"

\* recordFailure(): the counter goes up, and past 2 the instance is unhealthy.
recordFailure(b) ==
  [b EXCEPT !.consecutiveFailures = @ + 1,
            !.healthy = IF b.consecutiveFailures + 1 > 2 THEN FALSE ELSE @]

\* A mutation of recordSuccess that resets the counter and leaves the flag.
recordSuccessCounterOnly(b) == [b EXCEPT !.consecutiveFailures = 0]

\* recordSuccess()
recordSuccess(b) == [b EXCEPT !.consecutiveFailures = 0, !.healthy = TRUE]

\* A mutation of probe that gives up an instance at its second failure.
probeHasty(b, ok) ==
  IF ok THEN [b EXCEPT !.consecutiveFailures = 0, !.healthy = TRUE]
  ELSE [b EXCEPT !.consecutiveFailures = @ + 1,
                 !.healthy = IF b.consecutiveFailures + 1 > 1 THEN FALSE ELSE @]

\* A mutation of probe that lets a failure pass without counting it.
probeSwallows(b, ok) ==
  IF ok THEN [b EXCEPT !.consecutiveFailures = 0, !.healthy = TRUE]
  ELSE b

\* A mutation of probe whose success leaves the counter as it is.
probeKeepsCount(b, ok) ==
  IF ok THEN [b EXCEPT !.healthy = TRUE]
  ELSE [b EXCEPT !.consecutiveFailures = @ + 1,
                 !.healthy = IF b.consecutiveFailures + 1 > 2 THEN FALSE ELSE @]

\* probe(), once fetch has settled: ok is response.ok; a response that is not
\* ok and a thrown fetch count alike.
probe(b, ok) ==
  IF ok THEN [b EXCEPT !.consecutiveFailures = 0, !.healthy = TRUE]
  ELSE [b EXCEPT !.consecutiveFailures = @ + 1,
                 !.healthy = IF b.consecutiveFailures + 1 > 2 THEN FALSE ELSE @]

\* The affinity keys of the model, as char codes: '', 'b', 'ab'.
AffinityKeys == {<<>>, <<98>>, <<97, 98>>}

\* hash(input): hash = (hash << 5) - hash + charCode, hash |= 0; Math.abs.
\* The keys of the model are short enough for |= 0 to change nothing.
RECURSIVE hashFrom(_, _)
hashFrom(h, input) ==
  IF input = <<>> THEN h
  ELSE hashFrom((h * 32) - h + Head(input), Tail(input))

hash(input) == LET h == hashFrom(0, input) IN IF h < 0 THEN 0 - h ELSE h

\* candidates.reduce((sum, bridge) => sum + bridge.weight, 0), up to the i-th
RECURSIVE cursorAt(_, _)
cursorAt(c, i) == IF i = 0 THEN 0 ELSE cursorAt(c, i - 1) + c[i].weight

\* The first candidate the loop breaks at, out of those whose cursor meets
\* the condition, or 0 when the loop runs to its end.
firstAt(reached) ==
  IF reached = {} THEN 0
  ELSE CHOOSE i \in reached : \A j \in reached : i <= j

\* A mutation of the candidate filter that takes every instance.
candidatesAll(B, allowUnhealthy) == B

\* healthy.length && !allowUnhealthy ? healthy : this.bridges
candidates(B, allowUnhealthy) ==
  LET healthy == SelectSeq(B, LAMBDA b : b.healthy) IN
  IF Len(healthy) > 0 /\ ~allowUnhealthy THEN healthy ELSE B

\* A mutation of the affinity branch's comparison: mod <= cursor.
selectByAffinityUpTo(c, affinityKey) ==
  IF affinityKey # <<>> /\ Len(c) > 1
  THEN LET mod == Halves(hash(affinityKey)) % cursorAt(c, Len(c)) IN
       firstAt({i \in DOMAIN c : mod <= cursorAt(c, i)})
  ELSE 0

\* A mutation of the affinity branch that selects nothing.
selectByAffinityNone(c, affinityKey) == 0

\* if (options?.affinityKey && candidates.length > 1): hash % weightSum is
\* mapped into the cumulative weights.
selectByAffinity(c, affinityKey) ==
  IF affinityKey # <<>> /\ Len(c) > 1
  THEN LET mod == Halves(hash(affinityKey)) % cursorAt(c, Len(c)) IN
       firstAt({i \in DOMAIN c : mod < cursorAt(c, i)})
  ELSE 0

\* if (!selected): pick = Math.random() * totalWeight, pick <= cursor
selectByPick(c, pick) == firstAt({i \in DOMAIN c : pick <= cursorAt(c, i)})

\* getBridge(options), with Math.random() * totalWeight handed in as pick; 0
\* stands for the throw when there is no candidate.
getBridge(B, affinityKey, allowUnhealthy, pick) ==
  LET c == candidates(B, allowUnhealthy)
      a == selectByAffinity(c, affinityKey)
      s == IF a # 0 THEN a ELSE selectByPick(c, pick)
  IN  IF Len(c) = 0 THEN 0 ELSE c[IF s # 0 THEN s ELSE 1].id

\* A mutation of the constructor's check that lets an empty list pass.
hasDefinitionsAlways(definitions) == TRUE

\* if (!definitions.length) throw new Error(...)
hasDefinitions(definitions) == Len(definitions) # 0

NoHistory == [probes |-> 0, failures |-> 0, last |-> "none",
              recovered |-> FALSE]

\* new MediaBridgePool(definitions); configured is the number of instances
\* the caller had configured.
Construct(definitions, configured) ==
  IF hasDefinitions(definitions)
  THEN /\ bridges' = [i \in DOMAIN definitions |->
                        MediaBridgeInstance(i, definitions[i])]
       /\ history' = [i \in DOMAIN definitions |-> NoHistory]
       /\ poolState' = [st |-> "running", given |-> Len(definitions),
                        configured |-> configured]
  ELSE /\ poolState' = [st |-> "threw", given |-> Len(definitions),
                        configured |-> configured]
       /\ UNCHANGED <<bridges, history>>

PoolConstruct ==
  /\ poolState.st = "none"
  /\ \E definitions \in SeqsUpTo(DefWeights, MaxBridges) :
       Construct(definitions, Len(definitions))
  /\ UNCHANGED <<selected, probeVars, notPoolVars>>

\* MEDIA_BRIDGES: unset, not JSON, JSON that is no array, or an array whose
\* entries are a weight, or -1 for an entry without id or baseUrl.
EnvJsons ==
  {[kind |-> k, entries |-> <<>>] : k \in {"unset", "garbage", "no array"}}
    \cup {[kind |-> "array", entries |-> e] :
            e \in SeqsUpTo(DefWeights \cup {-1}, MaxBridges)}

\* parsed.forEach(...): the entries before the first invalid one are pushed,
\* and the throw is caught.
parsedFromEnv(envJson) ==
  LET e == envJson.entries
      bad == {i \in DOMAIN e : e[i] = -1}
      n == IF bad = {} THEN Len(e)
           ELSE (CHOOSE i \in bad : \A j \in bad : i <= j) - 1
  IN  IF envJson.kind = "array" THEN SubSeq(e, 1, n) ELSE <<>>

\* if (!definitions.length) definitions.push({ id: 'default', ..., weight: 1 })
definitionsFromEnv(envJson) ==
  LET parsed == parsedFromEnv(envJson) IN
  IF Len(parsed) = 0 THEN <<Halves(1)>> ELSE parsed

\* MediaBridgePool.fromEnv(params), as server.ts calls it at startup.
PoolFromEnv ==
  /\ poolState.st = "none"
  /\ \E envJson \in EnvJsons :
       Construct(definitionsFromEnv(envJson), Len(parsedFromEnv(envJson)))
  /\ UNCHANGED <<selected, probeVars, notPoolVars>>

UpTo3(n) == IF n < 3 THEN n + 1 ELSE 3

\* What a settled probe of instance i does to the pool.
ProbeSettled(i, ok) ==
  /\ poolState.st = "running"
  /\ i \in DOMAIN bridges
  /\ ~ok => bridges[i].consecutiveFailures < MaxFailures
  /\ bridges' = [bridges EXCEPT ![i] = probe(@, ok)]
  /\ history' = [history EXCEPT ![i] =
       IF ok THEN [probes |-> 0, failures |-> 0, last |-> "probe ok",
                   recovered |-> ~bridges[i].healthy]
       ELSE [probes |-> UpTo3(@.probes), failures |-> UpTo3(@.failures),
             last |-> "probe failed", recovered |-> FALSE]]

\* One probe of instance i has settled.
Probe(i, ok) ==
  /\ ProbeSettled(i, ok)
  /\ UNCHANGED <<poolState, selected, probeVars, notPoolVars>>

\* A mutation of find that takes the first instance, whatever its id.
findFirst(B, bridgeId) == IF Len(B) > 0 THEN 1 ELSE 0

\* this.bridges.find((b) => b.id === bridgeId): the position of the first
\* instance with that id, 0 for undefined.
find(B, bridgeId) ==
  IF \E i \in DOMAIN B : B[i].id = bridgeId
  THEN CHOOSE i \in DOMAIN B :
         B[i].id = bridgeId /\ \A j \in 1..(i - 1) : B[j].id # bridgeId
  ELSE 0

\* bridge?.recordFailure() and bridge?.recordSuccess() on what find returned
poolRecordFailure(B, bridgeId) ==
  LET i == find(B, bridgeId) IN
  IF i = 0 THEN B ELSE [B EXCEPT ![i] = recordFailure(@)]

poolRecordSuccess(B, bridgeId) ==
  LET i == find(B, bridgeId) IN
  IF i = 0 THEN B ELSE [B EXCEPT ![i] = recordSuccess(@)]

\* pool.recordFailure(bridgeId): bridges.find(...)?.recordFailure()
PoolRecordFailure(bridgeId) ==
  /\ poolState.st = "running"
  /\ IF bridgeId \in DOMAIN bridges
     THEN /\ bridges[bridgeId].consecutiveFailures < MaxFailures
          /\ bridges' = poolRecordFailure(bridges, bridgeId)
          /\ history' = [history EXCEPT ![bridgeId] =
               [@ EXCEPT !.failures = UpTo3(@), !.last = "reported failure",
                         !.recovered = FALSE]]
     ELSE UNCHANGED <<bridges, history>>
  /\ UNCHANGED <<poolState, selected, probeVars, notPoolVars>>

\* pool.recordSuccess(bridgeId): bridges.find(...)?.recordSuccess()
PoolRecordSuccess(bridgeId) ==
  /\ poolState.st = "running"
  /\ IF bridgeId \in DOMAIN bridges
     THEN /\ bridges' = poolRecordSuccess(bridges, bridgeId)
          /\ history' = [history EXCEPT ![bridgeId] =
               [@ EXCEPT !.failures = 0, !.last = "reported success",
                         !.recovered = FALSE]]
     ELSE UNCHANGED <<bridges, history>>
  /\ UNCHANGED <<poolState, selected, probeVars, notPoolVars>>

HealthyIds(B) == {B[i].id : i \in {j \in DOMAIN B : B[j].healthy}}

\* The values Math.random() * totalWeight is drawn from, in halves: the
\* random branch is entered only when the affinity branch selected nothing.
Picks(c, affinityKey) ==
  IF selectByAffinity(c, affinityKey) # 0 THEN {0}
  ELSE 0..(cursorAt(c, Len(c)) - 1)

\* The selection of pool.getBridge(options).
Selecting ==
  /\ poolState.st = "running"
  /\ \E affinityKey \in AffinityKeys, allowUnhealthy \in BOOLEAN :
       \E pick \in Picks(candidates(bridges, allowUnhealthy), affinityKey) :
         selected' = [affinityKey |-> affinityKey,
                      allowUnhealthy |-> allowUnhealthy,
                      healthy |-> HealthyIds(bridges),
                      id |-> getBridge(bridges, affinityKey, allowUnhealthy,
                                       pick)]

\* pool.getBridge(options), by a caller that only reads the id of what it
\* is handed.
GetBridge ==
  /\ Selecting
  /\ UNCHANGED <<bridges, poolState, history, probeVars, notPoolVars>>

\* snapshot(): a new object with the instance's id, weight, healthy, state
\* and consecutiveFailures, and the instance's own metadata object, which is
\* named here by the id of the instance it belongs to. baseUrl, apiKey,
\* lastCheckedAt and latencyMs are copied the same way as weight.
snapshot(b) ==
  [id |-> b.id, weight |-> b.weight, healthy |-> b.healthy,
   state |-> state(b), consecutiveFailures |-> b.consecutiveFailures,
   metadata |-> b.id]

\* A mutation of snapshot() that hands out the instance itself: a write to
\* a field of what was returned is a write to the instance.
instanceAfterWriteShared(b, field, v) == [b EXCEPT ![field] = v]

\* The instance after its caller has assigned a field of the object that
\* snapshot() returned: the object is a new one, the instance is as it was.
instanceAfterWrite(b, field, v) == b

\* pool.getSnapshot(): this.bridges.map((bridge) => bridge.snapshot())
GetSnapshot ==
  /\ poolState.st = "running"
  /\ snap' = [i \in DOMAIN bridges |-> snapshot(bridges[i])]
  /\ UNCHANGED <<bridges, poolState, history, selected, probeVars, metadata,
                 notSnapVars>>

\* pool.getBridge(options), by a caller that keeps what it is handed:
\* return selected.snapshot()
GetBridgeSnapshot ==
  /\ Selecting
  /\ snap' = <<snapshot(bridges[find(bridges, selected'.id)])>>
  /\ UNCHANGED <<bridges, poolState, history, probeVars, metadata,
                 notSnapVars>>

\* What a caller assigns to a field of a snapshot it holds.
SnapshotWrites ==
  {<<"healthy", TRUE>>, <<"healthy", FALSE>>, <<"consecutiveFailures", 0>>,
   <<"weight", 1>>}

\* The caller assigns a field of the k-th snapshot it holds.
WriteSnapshot(k, w) ==
  /\ k \in DOMAIN snap
  /\ snap[k][w[1]] # w[2]
  /\ snap' = [snap EXCEPT ![k] = [@ EXCEPT ![w[1]] = w[2]]]
  /\ bridges' = [i \in DOMAIN bridges |->
                   IF bridges[i].id = snap[k].id
                   THEN instanceAfterWrite(bridges[i], w[1], w[2])
                   ELSE bridges[i]]
  /\ UNCHANGED <<poolState, history, selected, probeVars, metadata,
                 notSnapVars>>

\* The caller assigns an entry of the metadata object of the k-th snapshot
\* it holds: the object is the instance's.
WriteMetadata(k, v) ==
  /\ k \in DOMAIN snap
  /\ metadata[snap[k].metadata] # v
  /\ metadata' = [metadata EXCEPT ![snap[k].metadata] = v]
  /\ UNCHANGED <<bridges, poolState, history, selected, probeVars, snap,
                 notSnapVars>>

\* startProbes(): every probeIntervalMs, probe() is called on every instance;
\* each call runs up to its fetch before the next one is made. Probes in
\* flight are counted up to MaxPending.
StartedMore(n) == IF n < MaxPending THEN n + 1 ELSE n

ProbeTick ==
  /\ poolState.st = "running"
  /\ probing' = [i \in 1..MaxBridges |->
                   IF i \in DOMAIN bridges THEN StartedMore(probing[i])
                   ELSE probing[i]]
  /\ UNCHANGED <<bridges, poolState, history, selected, silent, notPoolVars>>

\* How a fetch may settle: a response that is ok, one that is not, or a
\* thrown error.
FetchOutcomes == {"ok", "not ok", "error"}

\* A fetch of probe() settles and probe() runs to its end. probe() is given
\* no signal, so the fetch to an instance that does not answer settles only
\* if the runtime gives it up, and then by an error.
ProbeSettle(i, outcome) ==
  /\ probing[i] > 0
  /\ i \in silent => outcome = "error"
  /\ ProbeSettled(i, outcome = "ok")
  /\ probing' = [probing EXCEPT ![i] = @ - 1]
  /\ UNCHANGED <<poolState, selected, silent, notPoolVars>>

\* Instance i stops answering: it sends no response and closes no connection.
Silence(i) ==
  /\ poolState.st = "running"
  /\ i \in DOMAIN bridges
  /\ i \notin silent
  /\ silent' = silent \cup {i}
  /\ UNCHANGED <<bridges, poolState, history, selected, probing, notPoolVars>>

\* --------------------------------------------------- the CouchDB backend
\* server.ts: the protocol of DB_CONNECTION_STRING chooses the backend.
ChooseBackend(b) ==
  /\ couch.backend = "none"
  /\ couch' = [couch EXCEPT !.backend = b]
  /\ UNCHANGED <<now, nextUuid, production, sessions, everSaved, smb, queue,
                 faults, post, patch, hb, del, addLine, delLine, poll,
                 lastActive, poolVars, sweep, snapVars, dbCall, seqs, http>>

\* What no call of the CouchDB backend writes.
notCouch == <<now, nextUuid, production, sessions, everSaved, smb, queue,
              faults, post, patch, hb, del, addLine, delLine, poll,
              lastActive, poolVars, sweep, snapVars, dbCall, seqs, http>>

\* nanoDb.get(id): the document, or the 404 thrown for a document that was
\* never stored or is deleted.
found(doc) == doc.rev > 0 /\ ~doc.deleted

\* A mutation of the revision check: the database takes every write.
acceptedAny(doc, rev) == TRUE

\* nanoDb.insert and nanoDb.destroy of a document that carries _rev: CouchDB
\* takes the write when _rev is the document's current revision and answers
\* 409, which nano throws, when it is not.
accepted(doc, rev) == doc.rev = rev

\* saveUserSession: insert({ ...existingDoc, ...userSession, _id }), where
\* existingDoc is { _id } when get throws 404; no lastSeenAt is computed. 0
\* stands for a field the document does not have.
couchSaved(doc, userSession) ==
  [rev |-> doc.rev + 1, deleted |-> FALSE, isActive |-> userSession.isActive,
   lastSeen |-> userSession.lastSeen,
   lastSeenAt |-> IF found(doc) THEN doc.lastSeenAt ELSE 0]

\* updateSession: insert({ ...doc, ...updates }); updateData, which carries
\* the lastSeenAt computed from lastSeen, is not what is inserted.
couchUpdated(doc, updates) ==
  [rev |-> doc.rev + 1, deleted |-> FALSE,
   isActive |-> IF "isActive" \in DOMAIN updates THEN updates.isActive
                ELSE doc.isActive,
   lastSeen |-> IF "lastSeen" \in DOMAIN updates THEN updates.lastSeen
                ELSE doc.lastSeen,
   lastSeenAt |-> IF "lastSeenAt" \in DOMAIN updates THEN updates.lastSeenAt
                  ELSE doc.lastSeenAt]

\* saveUserSession of a session under an id generated for it: get throws 404
\* and the document is inserted without _rev.
CouchSaveUserSession(sid) ==
  /\ couch.backend = "couchdb"
  /\ couch.docs[sid].rev = 0
  /\ couch' = [couch EXCEPT !.docs[sid] =
                 couchSaved(@, [isActive |-> FALSE, lastSeen |-> now])]
  /\ UNCHANGED notCouch

\* updateSession, up to its await of nanoDb.get(id): the catch returns false
\* when get throws.
CouchUpdateGet(sid) ==
  /\ couch.backend = "couchdb"
  /\ couch.upd.pc = "idle"
  /\ couch' = [couch EXCEPT !.upd =
                 IF found(couch.docs[sid])
                 THEN [pc |-> "got", sessionId |-> sid,
                       rev |-> couch.docs[sid].rev, result |-> "none"]
                 ELSE [pc |-> "done", sessionId |-> sid, rev |-> 0,
                       result |-> "false"]]
  /\ UNCHANGED notCouch

\* updateSession, from nanoDb.insert({ ...doc, ...updates }) to its return:
\* true, or false from the catch when insert throws.
CouchUpdateInsert ==
  /\ couch.upd.pc = "got"
  /\ LET sid == couch.upd.sessionId
         doc == couch.docs[sid]
     IN  IF accepted(doc, couch.upd.rev)
         THEN /\ doc.rev < MaxRev
              /\ couch' = [couch EXCEPT
                   !.docs[sid] = couchUpdated(doc, PatchUpdates),
                   !.upd = [@ EXCEPT !.pc = "done", !.result = "true"]]
         ELSE couch' = [couch EXCEPT
                   !.upd = [@ EXCEPT !.pc = "done", !.result = "false"]]
  /\ UNCHANGED notCouch

\* The caller of updateSession has its answer.
CouchUpdateReturn ==
  /\ couch.upd.pc = "done"
  /\ couch' = [couch EXCEPT !.upd = IdleCall]
  /\ UNCHANGED notCouch

\* deleteUserSession, up to its await of nanoDb.get(sessionDocId)
CouchDeleteGet(sid) ==
  /\ couch.backend = "couchdb"
  /\ couch.del.pc = "idle"
  /\ couch' = [couch EXCEPT !.del =
                 IF found(couch.docs[sid])
                 THEN [pc |-> "got", sessionId |-> sid,
                       rev |-> couch.docs[sid].rev, result |-> "none"]
                 ELSE [pc |-> "done", sessionId |-> sid, rev |-> 0,
                       result |-> "false"]]
  /\ UNCHANGED notCouch

\* deleteUserSession, from nanoDb.destroy(session._id, session._rev) to its
\* return: the deletion is a new revision of the document.
CouchDestroy ==
  /\ couch.del.pc = "got"
  /\ LET sid == couch.del.sessionId
         doc == couch.docs[sid]
     IN  IF accepted(doc, couch.del.rev)
         THEN /\ doc.rev < MaxRev
              /\ couch' = [couch EXCEPT
                   !.docs[sid] = [doc EXCEPT !.rev = @ + 1,
                                             !.deleted = TRUE],
                   !.del = [@ EXCEPT !.pc = "done", !.result = "true"]]
         ELSE couch' = [couch EXCEPT
                   !.del = [@ EXCEPT !.pc = "done", !.result = "false"]]
  /\ UNCHANGED notCouch

\* The caller of deleteUserSession has its answer.
CouchDeleteReturn ==
  /\ couch.del.pc = "done"
  /\ couch' = [couch EXCEPT !.del = IdleCall]
  /\ UNCHANGED notCouch

\* ------------------------------------------- both backends, call by call
\* What the calls to both backends never write.
notBoth == <<now, nextUuid, production, smb, queue, faults, post, patch, hb,
             del, addLine, delLine, poll, lastActive, poolVars, sweep,
             snapVars, seqs, http>>

\* The session handed to saveUserSession, last seen at t.
SavedSession(t) ==
  [lineId |-> 1, smbConferenceId |-> 1, isActive |-> FALSE,
   isExpired |-> FALSE, lastSeen |-> t, endpointId |-> 0,
   sessionDescription |-> FALSE]

\* MongoDB's lastSeenAt: saveUserSession sets it to new Date(lastSeen) and
\* updateSession sets it to new Date(updates.lastSeen) whenever updates
\* carries a numeric lastSeen, as the updates of the model all do.
mongoLastSeenAt(S, sessionId) == S[sessionId].lastSeen

\* saveUserSession(sessionId, userSession), on either backend.
BothSave(sid, t) ==
  /\ couch.docs[sid].rev < MaxRev
  /\ sessions' = saveUserSession(sessions, sid, SavedSession(t))
  /\ everSaved' = everSaved \cup {sid}
  /\ couch' = [couch EXCEPT !.docs[sid] = couchSaved(@, SavedSession(t))]
  /\ dbCall' = [op |-> "save", sessionId |-> sid, lastSeen |-> t,
                mongo |-> TRUE, couch |-> TRUE]
  /\ UNCHANGED notBoth

\* updateSession(sessionId, { isActive: true, lastSeen: t }), on either
\* backend, with its results.
BothUpdate(sid, t) ==
  LET updates == [isActive |-> TRUE, lastSeen |-> t]
      doc == couch.docs[sid]
  IN  /\ doc.rev < MaxRev
      /\ sessions' = updateSession(sessions, sid, updates)
      /\ couch' = IF found(doc)
                  THEN [couch EXCEPT !.docs[sid] = couchUpdated(doc, updates)]
                  ELSE couch
      /\ dbCall' = [op |-> "update", sessionId |-> sid, lastSeen |-> t,
                    mongo |-> updateSessionMatched(sessions, sid),
                    couch |-> found(doc)]
      /\ UNCHANGED <<everSaved, notBoth>>

\* deleteUserSession(sessionId), on either backend, with its results.
BothDelete(sid) ==
  LET doc == couch.docs[sid] IN
  /\ doc.rev < MaxRev
  /\ sessions' = deleteUserSession(sessions, sid)
  /\ couch' = IF found(doc)
              THEN [couch EXCEPT !.docs[sid] =
                      [doc EXCEPT !.rev = @ + 1, !.deleted = TRUE]]
              ELSE couch
  /\ dbCall' = [op |-> "delete", sessionId |-> sid, lastSeen |-> 0,
                mongo |-> sid \in DOMAIN sessions, couch |-> found(doc)]
  /\ UNCHANGED <<everSaved, notBoth>>

\* ------------------------------------------------------- production ids
\* What no addProduction or deleteProduction call writes.
notSeqs == <<now, nextUuid, production, sessions, everSaved, smb, queue,
             faults, post, patch, hb, del, addLine, delLine, poll,
             lastActive, poolVars, sweep, snapVars, couch, dbCall, http>>

\* DbManagerMongoDb.getNextSequence: findAndModify with $inc and new: true,
\* one atomic command; `ret.value?.seq || 1`.
mongoNextSequence(counter) ==
  IF counter.value + 1 = 0 THEN 1 ELSE counter.value + 1

\* DbManagerMongoDb.addProduction, up to the await of getNextSequence.
MongoGetNextSequence(a) ==
  /\ couch.backend = "mongodb"
  /\ seqs.call[a].pc = "idle"
  /\ seqs.counter.value < MaxSeq
  /\ LET id == mongoNextSequence(seqs.counter)
     IN seqs' = [seqs EXCEPT !.counter.value = id,
                             !.assigned = Append(@, id),
                             !.call[a] = [NoSeqCall EXCEPT !.pc = "insert",
                                                           !.id = id]]
  /\ UNCHANGED notSeqs

\* DbManagerMongoDb.addProduction: insertOne({ name, lines, _id }), which
\* throws a duplicate-key error when the _id is stored already.
MongoInsertOne(a) ==
  /\ couch.backend = "mongodb"
  /\ seqs.call[a].pc = "insert"
  /\ seqs' = [seqs EXCEPT
       !.stored = IF seqs.call[a].id \in @ THEN @
                  ELSE @ \cup {seqs.call[a].id},
       !.call[a] = NoSeqCall]
  /\ UNCHANGED notSeqs

\* DbManagerCouchDb.getNextSequence: nanoDb.get of the counter document and
\* the increment of its value; { _id, value: '1' } without _rev when get
\* throws.
CouchCounterGet(a) ==
  /\ couch.backend = "couchdb"
  /\ seqs.call[a].pc = "idle"
  /\ seqs.counter.value < MaxSeq
  /\ seqs' = [seqs EXCEPT !.call[a] =
       IF found(seqs.counter)
       THEN [NoSeqCall EXCEPT !.pc = "counter",
                              !.value = seqs.counter.value + 1,
                              !.rev = seqs.counter.rev]
       ELSE [NoSeqCall EXCEPT !.pc = "counter", !.value = 1]]
  /\ UNCHANGED notSeqs

\* DbManagerCouchDb.getNextSequence: nanoDb.insert(counterDoc) and the
\* return of its value; the 409 of a stale _rev is thrown to the caller of
\* addProduction.
CouchCounterInsert(a) ==
  /\ couch.backend = "couchdb"
  /\ seqs.call[a].pc = "counter"
  /\ seqs' =
       IF accepted(seqs.counter, seqs.call[a].rev)
       THEN [seqs EXCEPT !.counter = [value |-> seqs.call[a].value,
                                      rev |-> @.rev + 1, deleted |-> FALSE],
                         !.assigned = Append(@, seqs.call[a].value),
                         !.call[a] = [NoSeqCall EXCEPT
                                        !.pc = "insert",
                                        !.id = seqs.call[a].value]]
       ELSE [seqs EXCEPT !.conflicted = TRUE, !.call[a] = NoSeqCall]
  /\ UNCHANGED notSeqs

\* DbManagerCouchDb.addProduction: nanoDb.insert of { name, lines, _id }
\* without _rev, which CouchDB takes only when no document has the _id.
CouchInsertProduction(a) ==
  /\ couch.backend = "couchdb"
  /\ seqs.call[a].pc = "insert"
  /\ LET id == seqs.call[a].id
         doc == [rev |-> IF id \in seqs.stored THEN 1 ELSE 0]
     IN seqs' = [seqs EXCEPT
          !.stored = IF accepted(doc, 0) THEN @ \cup {id} ELSE @,
          !.call[a] = NoSeqCall]
  /\ UNCHANGED notSeqs

\* deleteProduction of either backend: deleteOne({ _id }), or nanoDb.get and
\* nanoDb.destroy(_id, _rev).
DeleteProduction(id) ==
  /\ couch.backend # "none"
  /\ id \in seqs.stored
  /\ seqs.deletes < NumDel
  /\ seqs' = [seqs EXCEPT !.stored = @ \ {id}, !.gone = @ \cup {id},
                          !.deletes = @ + 1]
  /\ UNCHANGED notSeqs

\* ----------------------------------- the production and line routes
\* What no request to a production or line route writes.
notHttp == <<now, nextUuid, production, sessions, everSaved, smb, queue,
             faults, post, patch, hb, del, addLine, delLine, poll,
             lastActive, poolVars, sweep, snapVars, couch, dbCall, seqs>>

\* RoleScope, and the users a request may carry.
RoleScopes == {"admin", "engineer", "operator", "talent"}

Users == {NoUser} \cup {[scopes |-> S] : S \in SUBSET RoleScopes}

\* The routes that create, modify or delete a production or a line.
Routes == {"POST /production", "PATCH /production/:productionId",
           "DELETE /production/:productionId",
           "POST /production/:productionId/line",
           "PATCH /production/:productionId/line/:lineId",
           "DELETE /production/:productionId/line/:lineId"}

\* hasRequiredScopes(user, required)
hasRequiredScopes(user, required) ==
  IF user = NoUser THEN FALSE
  ELSE IF required = {} THEN TRUE
  ELSE \E scope \in required : scope \in user.scopes

\* const requireEngineer = requireScopes(['admin', 'engineer'])
requireEngineer == {"admin", "engineer"}

\* The preHandler option of each route, as the route is registered: the
\* scopes it requires, none for a route registered without the option.
preHandler(route) ==
  IF route = "DELETE /production/:productionId" THEN <<>>
  ELSE <<requireEngineer>>

\* A request arrives with the user the authentication hook gave it.
RouteRequest(route, user) ==
  /\ http.pc \in {"idle", "done"}
  /\ http' = [NoRequest EXCEPT !.pc = "preHandler", !.route = route,
                               !.user = user]
  /\ UNCHANGED notHttp

\* requireScopes: 403 'Insufficient scope' when the user has none of the
\* required scopes; the handler is run otherwise.
RoutePreHandler ==
  /\ http.pc = "preHandler"
  /\ http' =
       IF \E i \in DOMAIN preHandler(http.route) :
            ~hasRequiredScopes(http.user, preHandler(http.route)[i])
       THEN [http EXCEPT !.pc = "done", !.status = 403]
       ELSE [http EXCEPT !.pc = "handler"]
  /\ UNCHANGED notHttp

\* The handler of the route: it changes the production or the line and
\* answers 200, or answers 404 for one that does not exist.
RouteHandler ==
  /\ http.pc = "handler"
  /\ \E status \in {200, 404} :
       http' = [http EXCEPT !.pc = "done", !.status = status, !.ran = TRUE,
                            !.changed = (status = 200)]
  /\ UNCHANGED notHttp

\* ------------------------------------------------------------ specifications
PostStep(r) ==
  \/ PostSession(r)
  \/ CreateConferenceForLine(r)
  \/ AllocateConference(r)
  \/ SetLineRead(r)
  \/ SetLineWrite(r)
  \/ CreateUserSession(r)
  \/ CreateEndpoint(r)
  \/ PostUpdateSession(r)
  \/ CreateConnection(r)

PatchStep(p) ==
  \/ PatchSession(p)
  \/ PatchRetry(p)
  \/ PatchUpdateSession(p)
  \/ PatchRequire(p)
  \/ HandleAnswerRequest(p)

\* Concurrent POST /session requests.
Next == \E r \in Posts : PostStep(r)

Spec == Init /\ [][Next]_vars

\* The life of a session: offer, answer, heartbeat, deletion, sweep, expiry.
NextLife ==
  \/ PostStep(1)
  \/ PatchStep(1)
  \/ Heartbeat
  \/ DeleteSession
  \/ CheckUserStatus
  \/ PruneSession
  \/ TickMs
  \/ TickPrune

SpecLife == Init /\ [][NextLife]_vars

\* One offer and one answer, with bridge calls that may fail.
NextAnswer ==
  \/ PostStep(1)
  \/ PatchStep(1)

SpecAnswer == Init /\ [][NextAnswer]_vars

\* The session records of either backend: with MongoDB, the handlers and
\* the expiry of the store; with CouchDB, updateSession and
\* deleteUserSession, each of them a read followed by a write.
OnMongo == couch.backend = "mongodb"

NextStore ==
  \/ \E b \in {"mongodb", "couchdb"} : ChooseBackend(b)
  \/ OnMongo /\ PostStep(1)
  \/ OnMongo /\ PatchStep(1)
  \/ OnMongo /\ Heartbeat
  \/ OnMongo /\ DeleteSession
  \/ OnMongo /\ PruneSession
  \/ OnMongo /\ TickPrune
  \/ \E sid \in 1..NumDocs : CouchSaveUserSession(sid)
  \/ \E sid \in 1..NumDocs : CouchUpdateGet(sid)
  \/ CouchUpdateInsert
  \/ CouchUpdateReturn
  \/ \E sid \in 1..NumDocs : CouchDeleteGet(sid)
  \/ CouchDestroy
  \/ CouchDeleteReturn

SpecStore == Init /\ [][NextStore]_vars

\* One sequence of calls, made to a MongoDB backend and to a CouchDB backend.
NextBackends ==
  \/ \E sid \in 1..NumDocs, t \in 1..MaxTicks : BothSave(sid, t)
  \/ \E sid \in 1..NumDocs, t \in 1..MaxTicks : BothUpdate(sid, t)
  \/ \E sid \in 1..NumDocs : BothDelete(sid)

SpecBackends == Init /\ [][NextBackends]_vars

\* addProduction calls, concurrent with each other and with deleteProduction,
\* on one backend.
NextIds ==
  \/ \E b \in {"mongodb", "couchdb"} : ChooseBackend(b)
  \/ \E a \in Adds : MongoGetNextSequence(a)
  \/ \E a \in Adds : MongoInsertOne(a)
  \/ \E a \in Adds : CouchCounterGet(a)
  \/ \E a \in Adds : CouchCounterInsert(a)
  \/ \E a \in Adds : CouchInsertProduction(a)
  \/ \E id \in 1..MaxSeq : DeleteProduction(id)

SpecIds == Init /\ [][NextIds]_vars

\* Requests to the production and line routes, by users of every scope.
NextRoutes ==
  \/ \E route \in Routes, user \in Users : RouteRequest(route, user)
  \/ RoutePreHandler
  \/ RouteHandler

SpecRoutes == Init /\ [][NextRoutes]_vars

\* Concurrent add-line requests on one production.
NextAdd == \E a \in Adds : AddStep(a)

SpecAdd == Init /\ [][NextAdd]_vars

\* Deleting a line while sessions on the lines come and go.
NextLine ==
  \/ PostStep(1)
  \/ DeleteSession
  \/ CheckUserStatus
  \/ TickMs
  \/ \E d \in Dels : DelLineStep(d)

SpecLine == Init /\ [][NextLine]_vars

\* Long polls while a session is created and the sweep runs.
NextPoll ==
  \/ PostStep(1)
  \/ CheckUserStatus
  \/ PollTick
  \/ \E q \in Polls : PollStep(q)

SpecPoll == Init /\ [][NextPoll]_vars

\* The health of the pool's instances: construction, probes and reports.
NextPool ==
  \/ PoolConstruct
  \/ PoolFromEnv
  \/ \E i \in 1..MaxBridges, ok \in BOOLEAN : Probe(i, ok)
  \/ \E bridgeId \in 1..MaxBridges : PoolRecordFailure(bridgeId)
  \/ \E bridgeId \in 1..MaxBridges : PoolRecordSuccess(bridgeId)

SpecPool == Init /\ [][NextPool]_vars

\* Selection from the pool while probes change the health of its instances.
NextSelect ==
  \/ PoolConstruct
  \/ \E i \in 1..MaxBridges, ok \in BOOLEAN : Probe(i, ok)
  \/ GetBridge

SpecSelect == Init /\ [][NextSelect]_vars

\* A pool of instances of weight 1, 1.5 and 2.
PoolWeighted ==
  /\ poolState.st = "none"
  /\ \E n \in 1..MaxBridges :
       \E definitions \in [1..n -> {Halves(1), 3, Halves(2)}] :
         Construct(definitions, n)
  /\ UNCHANGED <<selected, probeVars, notPoolVars>>

\* Selection from pools of such weights, while probes change the health of
\* the first instance.
NextAffinity ==
  \/ PoolWeighted
  \/ \E ok \in BOOLEAN : Probe(1, ok)
  \/ GetBridge

SpecAffinity == Init /\ [][NextAffinity]_vars

\* A pool of MaxBridges instances, the first of weight 1.5 and the others of
\* weight 1.
PoolOfAll ==
  /\ poolState.st = "none"
  /\ Construct([i \in 1..MaxBridges |-> IF i = 1 THEN 3 ELSE 0], MaxBridges)
  /\ UNCHANGED <<selected, probeVars, notPoolVars>>

\* A caller that takes snapshots of the pool and writes to what it holds of
\* the first instance, while probes and reports change the health of that
\* instance.
NextSnapshot ==
  \/ PoolOfAll
  \/ \E ok \in BOOLEAN : Probe(1, ok)
  \/ PoolRecordFailure(1)
  \/ PoolRecordSuccess(1)
  \/ GetSnapshot
  \/ GetBridgeSnapshot
  \/ \E w \in SnapshotWrites : WriteSnapshot(1, w)
  \/ \E v \in 0..1 : WriteMetadata(1, v)

SpecSnapshot == Init /\ [][NextSnapshot]_vars

\* The sessions of k users who have joined line 1 one after the other, before
\* the first sweep.
JoinedPost(r) ==
  [pc |-> "done", lineId |-> 1, sessionId |-> uuidv4(2 * r - 1),
   smbConferenceId |-> 1, endpointId |-> uuidv4(2 * r), endpoint |-> "full",
   lines |-> <<>>, status |-> 201, sdp |-> TRUE, fault |-> FALSE,
   conferenceCalls |-> IF r = 1 THEN 1 ELSE 0, endpointCalls |-> 1]

JoinedSession(r) ==
  [lineId |-> 1, smbConferenceId |-> 1, isActive |-> TRUE, isExpired |-> FALSE,
   lastSeen |-> 0, endpointId |-> uuidv4(2 * r), sessionDescription |-> TRUE]

Joined(k) ==
  /\ now = 0
  /\ nextUuid = 2 * k + 1
  /\ production = [lines |-> <<[id |-> 1, name |-> "a", smbConferenceId |-> 1],
                               [id |-> 2, name |-> "b", smbConferenceId |-> 0]>>]
  /\ sessions = [sid \in {2 * r - 1 : r \in 1..k} |-> JoinedSession((sid + 1) \div 2)]
  /\ everSaved = {2 * r - 1 : r \in 1..k}
  /\ smb = [conferences |-> {1}, endpoints |-> {<<1, 2 * r>> : r \in 1..k},
            configured |-> {},
            allocated |-> [l \in LineIds |-> IF l = 1 THEN {1} ELSE {}],
            calls |-> [l \in LineIds |-> IF l = 1 THEN 1 ELSE 0]]
  /\ queue = <<>>
  /\ faults = 0
  /\ post = [r \in Posts |-> IF r <= k THEN JoinedPost(r) ELSE IdlePost]
  /\ patch = [p \in Patches |-> IdlePatch]
  /\ hb = [n |-> 0, sessionId |-> 0, status |-> 0]
  /\ del = [sessionId |-> 0, status |-> 0]
  /\ addLine = [a \in Adds |-> IdleAdd]
  /\ delLine = [d \in Dels |-> IdleDel]
  /\ poll = [q \in Polls |-> IdlePoll]
  /\ lastActive = {}
  /\ bridges = <<>>
  /\ poolState = [st |-> "none", given |-> 0, configured |-> 0]
  /\ history = <<>>
  /\ selected = NoSelection
  /\ probing = [i \in 1..MaxBridges |-> 0]
  /\ silent = {}
  /\ sweep = NoSweep
  /\ snap = <<>>
  /\ metadata = [i \in 1..MaxBridges |-> 0]
  /\ couch = NoCouch
  /\ dbCall = NoCall
  /\ seqs = NoSeqs
  /\ http = NoRequest

InitSweep == \E k \in 1..NumPost : Joined(k)

\* The sweep, tick after tick, over the sessions of users who have joined,
\* while time passes.
NextSweep ==
  \/ SweepTick
  \/ TickMs

SpecSweep == InitSweep /\ [][NextSweep]_vars

\* The probe cycle of a pool built at startup.
NextProbe ==
  \/ PoolFromEnv
  \/ ProbeTick
  \/ \E i \in 1..MaxBridges, outcome \in FetchOutcomes : ProbeSettle(i, outcome)

SpecProbe == Init /\ [][NextProbe]_vars

\* The probe cycle with instances that stop answering. The timer fires again
\* and again, and a fetch to an instance that answers settles.
NextSilent ==
  \/ NextProbe
  \/ \E i \in 1..MaxBridges : Silence(i)

Answered(i) ==
  i \notin silent /\ \E outcome \in FetchOutcomes : ProbeSettle(i, outcome)

SpecSilent ==
  /\ Init /\ [][NextSilent]_vars
  /\ WF_vars(ProbeTick)
  /\ \A i \in 1..MaxBridges : WF_vars(Answered(i))

\* The event loop does not stop while a timer is armed or a continuation is
\* ready: time goes on to the next timer, a due timer fires, a ready
\* continuation runs.
PollProgress == PollTick \/ \E q \in Polls : PollTimeout(q) \/ PollRead(q)

SpecPollFair == SpecPoll /\ WF_vars(PollProgress)

\* ------------------------------------------------------------------- claims
PastConference(r) ==
  post[r].pc \in {"create", "endpoint", "update", "connect"}
    \/ (post[r].pc = "done" /\ post[r].smbConferenceId # 0)

\* C1: when all POST /session requests are for one line, which had no
\* conference id, one conference is created on the bridge for it and every
\* request that obtains a conference id obtains that one; with no failed bridge
\* call, allocateConference is called once.
C1_OneConferencePerLine ==
  \A l \in LineIds :
    (\A r \in Posts : post[r].lineId \in {0, l}) =>
    /\ Cardinality(smb.allocated[l]) <= 1
    /\ faults = 0 => smb.calls[l] <= 1
    /\ \A r \in Posts :
         post[r].lineId = l /\ post[r].smbConferenceId # 0
           => smb.allocated[l] = {post[r].smbConferenceId}
    /\ getLine(production.lines, l).smbConferenceId # 0
         => smb.allocated[l] = {getLine(production.lines, l).smbConferenceId}

\* Two requests for one line are both past createConferenceForLine, and the
\* bridge was asked once.
C1_Witness ==
  \E r1, r2 \in Posts :
    /\ r1 # r2
    /\ post[r1].lineId = post[r2].lineId
    /\ PastConference(r1) /\ PastConference(r2)
    /\ smb.calls[post[r1].lineId] = 1

\* C2: a POST /session request that met no fault is answered 201 with a
\* sessionId and an sdp; when the requests are all for one line, those answered
\* 201 reference the same conference, and in every case their endpoint ids and
\* their session ids differ.
C2_TwoSessionsOneConference ==
  /\ \A r \in Posts :
       post[r].pc = "done" /\ ~post[r].fault
         => /\ post[r].status = 201 /\ post[r].sdp /\ post[r].sessionId # 0
            /\ <<post[r].smbConferenceId, post[r].endpointId>> \in smb.endpoints
            /\ post[r].sessionId \in DOMAIN sessions
                 => /\ sessions[post[r].sessionId].smbConferenceId
                         = post[r].smbConferenceId
                    /\ sessions[post[r].sessionId].endpointId
                         = post[r].endpointId
  /\ \A r1, r2 \in Posts :
       /\ r1 # r2
       /\ post[r1].status = 201 /\ post[r2].status = 201
       => /\ post[r1].endpointId # post[r2].endpointId
          /\ post[r1].sessionId # post[r2].sessionId
          /\ (\A r \in Posts : post[r].lineId \in {0, post[r1].lineId})
               => post[r1].smbConferenceId = post[r2].smbConferenceId

\* Two requests for one line were answered 201 and two sessions are stored.
C2_Witness ==
  \E r1, r2 \in Posts :
    /\ r1 # r2
    /\ post[r1].status = 201 /\ post[r2].status = 201
    /\ post[r1].lineId = post[r2].lineId
    /\ {post[r1].sessionId, post[r2].sessionId} \subseteq DOMAIN sessions

\* The lifecycle state of a session id, read off its stored record.
Lifecycle(S, E, sid) ==
  IF sid \notin E THEN "NONE"
  ELSE IF sid \notin DOMAIN S THEN "EXPIRED"
  ELSE IF S[sid].isExpired THEN "EXPIRED"
  ELSE IF S[sid].isActive THEN "ACTIVE"
  ELSE "CREATED"

Cur(sid) == Lifecycle(sessions, everSaved, sid)

Nxt(sid) == Lifecycle(sessions', everSaved', sid)

C4_ActiveOnlyAfterAnswer ==
  \A sid \in DOMAIN sessions :
    sessions[sid].isActive
      => \E e \in smb.configured : e[2] = sessions[sid].endpointId

C6_UnknownSessionGone ==
  \A p \in Patches :
    patch[p].pc # "idle" /\ patch[p].sessionId = UnknownId
      => /\ patch[p].pc \in {"loop", "done"}
         /\ patch[p].i <= 5 /\ patch[p].reads = patch[p].i + 1
         /\ patch[p].smbCalls = 0 /\ ~patch[p].wrote
         /\ UnknownId \notin DOMAIN sessions
         /\ patch[p].pc = "done" => patch[p].status = 410 /\ patch[p].reads = 6

\* The 410 was given while a session of another id is stored.
C6_Witness ==
  \E p \in Patches :
    /\ patch[p].pc = "done" /\ patch[p].sessionId = UnknownId
    /\ patch[p].status = 410
    /\ DOMAIN sessions # {}

\* A session on line l that is marked active and is not expired.
ActiveOn(l) ==
  \E sid \in DOMAIN sessions :
    /\ sessions[sid].lineId = l
    /\ sessions[sid].isActive /\ ~sessions[sid].isExpired

\* C7: when the delete-line handler looks for participants and an active
\* session is on the line, the answer is 400 and the production is left as it
\* is; when none is, the handler goes on to delete, answers 200, and the line
\* is gone from the production.
C7_DeleteLineRefusedWhileActive ==
  [][\A d \in Dels :
       LET l == delLine[d].lineId IN
       /\ delLine[d].pc = "users" /\ delLine'[d].pc # "users"
            => IF ActiveOn(l)
               THEN /\ delLine'[d].pc = "done" /\ delLine'[d].status = 400
                    /\ production' = production
               ELSE delLine'[d].pc = "delete" /\ production' = production
       /\ delLine[d].pc = "delete" /\ delLine'[d].pc # "delete"
            => /\ delLine'[d].pc = "done" /\ delLine'[d].status = 200
               /\ ~hasLine(production'.lines, l)
       /\ delLine'[d].status = 200 => delLine[d].pc \in {"delete", "done"}]_vars

\* A request was refused with 400, the session on its line was deleted, and
\* the request sent again was answered 200 with the line gone.
C7_Witness ==
  \E d \in Dels :
    /\ delLine[d].refused /\ delLine[d].pc = "done" /\ delLine[d].status = 200
    /\ ~hasLine(production.lines, delLine[d].lineId)
    /\ post[1].lineId = delLine[d].lineId
    /\ del.status = 200 /\ del.sessionId = post[1].sessionId

Occurrences(lines, name) ==
  Cardinality({i \in DOMAIN lines : lines[i].name = name})

\* The part of C8 that holds in every interleaving: no two lines of the stored
\* production, nor of a list a request returns, have the same name.
C8_UniqueNames ==
  /\ \A name \in AddNames \cup {"b"} : Occurrences(production.lines, name) <= 1
  /\ \A a \in Adds, name \in AddNames \cup {"b"} :
       Occurrences(addLine[a].body, name) <= 1

\* C8 as stated: no two lines have the same name; a request answered 400 named
\* a line that existed and added nothing; the line of a request answered 200
\* is in the production's line list exactly once.
C8_UniqueNamesAddedOnce ==
  /\ C8_UniqueNames
  /\ \A a \in Adds :
       addLine[a].pc = "done" =>
         IF addLine[a].status = 400
         THEN findName(addLine[a].lines, addLine[a].name) /\ addLine[a].body = <<>>
         ELSE /\ addLine[a].status = 200
              /\ Occurrences(production.lines, addLine[a].name) = 1

\* Two requests with different names were both answered 200.
C8_Witness ==
  \E a, b \in Adds :
    /\ addLine[a].status = 200 /\ addLine[b].status = 200
    /\ addLine[a].name # addLine[b].name

\* The participants of line l as the storage holds them now: the sessions of
\* that line that are not expired, in the order of their ids.
CurrentOn(l) ==
  LET ids == {sid \in DOMAIN sessions :
                sessions[sid].lineId = l /\ ~sessions[sid].isExpired} IN
  [i \in 1..Cardinality(ids) |->
     LET sid == CHOOSE x \in ids : Cardinality({y \in ids : y < x}) = i - 1 IN
     [sessionId |-> sid, endpointId |-> sessions[sid].endpointId,
      isActive |-> sessions[sid].isActive]]

\* C9: every waiting long poll is answered in the end; one that no
\* notification woke leaves its wait exactly 25000 ms after it began; and the
\* answer is 200 with the participants as stored at the moment of the read
\* that follows the wait.
C9_PollResolves ==
  /\ \A q \in Polls : (poll[q].pc = "waiting") ~> (poll[q].pc = "done")
  /\ [][\A q \in Polls :
          /\ poll[q].pc = "waiting" /\ poll'[q].pc # "waiting"
               => /\ poll'[q].pc = "read"
                  /\ poll'[q].woken = "timeout" => now = poll[q].start + 25000
          /\ poll'[q].pc = "done" /\ poll[q].pc # "done"
               => /\ poll[q].pc = "read"
                  /\ poll'[q].status = 200
                  /\ poll'[q].snapshot = CurrentOn(poll[q].lineId)]_vars

\* A long poll that timed out has returned a session stored during its wait.
C9_Witness ==
  \E q \in Polls :
    /\ poll[q].pc = "done" /\ poll[q].woken = "timeout"
    /\ poll[q].status = 200
    /\ now = poll[q].start + 25000
    /\ poll[q].snapshot # <<>>
    /\ poll[q].start = 0

\* C10: a notification emitted while a long poll waits ends the wait in that
\* step, its timer never fires afterwards, and the list the poll returns is
\* read in a later step, from the storage as it is then.
C10_PollWokenByChange ==
  [][\A q \in Polls :
       /\ poll[q].pc = "waiting" /\ lastActive' # lastActive
            => poll'[q].pc = "read" /\ poll'[q].woken = "change"
       /\ poll[q].woken = "change" => poll'[q].woken = "change"
       /\ poll[q].pc = "read" /\ poll[q].woken = "change"
            => /\ poll[q].snapshot = <<>>
               /\ poll'[q] # poll[q]
                    => /\ poll'[q].pc = "done" /\ poll'[q].status = 200
                       /\ poll'[q].snapshot = CurrentOn(poll[q].lineId)]_vars

\* A long poll woken by a notification has returned, before its timeout was
\* due, the session whose activity was the change.
C10_Witness ==
  \E q \in Polls :
    /\ poll[q].pc = "done" /\ poll[q].woken = "change"
    /\ now < poll[q].deadline
    /\ \E i \in DOMAIN poll[q].snapshot :
         poll[q].snapshot[i].sessionId \in lastActive


\* ------------------------------------------------- claims on the bridge pool
\* C11, as stated: an instance changes from healthy to unhealthy only after at
\* least 3 consecutive failed probes of it, with no successful probe between.
C11_OnlyAfterThreeFailedProbes ==
  [][\A i \in DOMAIN bridges :
       bridges[i].healthy /\ i \in DOMAIN bridges' /\ ~bridges'[i].healthy
         => history'[i].probes >= 3]_vars

\* C11, amended: an instance changes from healthy to unhealthy only after at
\* least 3 consecutive failures of it, failed probes and reported failures
\* counted alike, with no successful probe and no reported success between;
\* with fewer it stays healthy.
C11_OnlyAfterThreeFailures ==
  [][\A i \in DOMAIN bridges :
       bridges[i].healthy /\ i \in DOMAIN bridges' /\ ~bridges'[i].healthy
         => history'[i].failures >= 3]_vars

\* C11: an instance has become unhealthy at its third failed probe in a row.
C11_Witness ==
  \E i \in DOMAIN bridges :
    /\ ~bridges[i].healthy
    /\ history[i].last = "probe failed"
    /\ history[i].probes = 3
    /\ bridges[i].consecutiveFailures = 3

\* C12: whatever the failure count and health of an instance were, after a
\* successful probe of it the counter is 0, it is healthy and its state is
\* 'healthy'.
C12_SuccessfulProbeHeals ==
  \A i \in DOMAIN bridges :
    history[i].last = "probe ok"
      => /\ bridges[i].consecutiveFailures = 0
         /\ bridges[i].healthy
         /\ state(bridges[i]) = "healthy"

\* C12: an unhealthy instance has been probed successfully once.
C12_Witness ==
  \E i \in DOMAIN bridges :
    /\ history[i].last = "probe ok"
    /\ history[i].recovered
    /\ bridges[i].healthy


C14_SelectedIsEligible ==
  selected # NoSelection
    => /\ selected.id \in {bridges[i].id : i \in DOMAIN bridges}
       /\ selected.id \notin selected.healthy
            => selected.healthy = {} \/ selected.allowUnhealthy

\* C14: an unhealthy instance was returned to a caller that allowed unhealthy
\* ones while another instance was healthy.
C14_Witness ==
  /\ selected.id # 0
  /\ selected.id \notin selected.healthy
  /\ selected.healthy # {}
  /\ selected.allowUnhealthy


BridgeIds(B) == {B[i].id : i \in DOMAIN B}

Started == {"allocate", "setread", "setwrite"}

\* The requests whose operation under key l has started and not settled.
InFlightUnder(l) ==
  {r \in Posts : post[r].lineId = l /\ post[r].pc \in Started}

\* The requests whose operation under key l waits or runs.
PendingUnder(l) ==
  {r \in Posts : post[r].lineId = l /\ post[r].pc \in Started \cup {"queued"}}

\* C16: for every key, at most one operation submitted under it is in flight.
C16_OneInFlightPerKey ==
  \A l \in LineIds : Cardinality(InFlightUnder(l)) <= 1

\* C16: one operation is in flight under a key while another one, submitted
\* under the same key, waits.
C16_Witness ==
  \E l \in LineIds :
    /\ Cardinality(InFlightUnder(l)) = 1
    /\ Cardinality(PendingUnder(l)) >= 2

\* C17: operations under one key start in the order of their submission, and
\* each starts only when every operation submitted before it under that key
\* has settled. Requests are submitted in the order of their numbers.
C17_SubmissionOrder ==
  [][\A r \in Posts :
       post[r].pc = "queued" /\ post'[r].pc # "queued"
         => \A r2 \in Posts :
              r2 < r /\ post[r2].lineId = post[r].lineId
                => post[r2].pc \notin Started \cup {"idle", "queued"}]_vars

\* C17: the second of two operations under one key started after the first
\* had stored the conference id, and found it.
C17_Witness ==
  \E r, r2 \in Posts :
    /\ r2 < r
    /\ post[r2].lineId = post[r].lineId
    /\ post[r].pc = "create"
    /\ post[r2].smbConferenceId # 0
    /\ post[r].smbConferenceId = post[r2].smbConferenceId
    /\ smb.calls[post[r].lineId] = 1

\* C18: an operation waiting under a key with no other operation pending or
\* in flight can start at once, whatever is pending or in flight under other
\* keys.
C18_OtherKeysDoNotDelay ==
  \A r \in Posts :
    post[r].pc = "queued" /\ PendingUnder(post[r].lineId) = {r}
      => ENABLED CreateConferenceForLine(r)

\* C18: an operation was submitted under an idle key while an operation under
\* another key was in flight, and both are in flight now.
C18_Witness ==
  \E r, r2 \in Posts :
    /\ r2 < r
    /\ post[r].lineId # post[r2].lineId
    /\ post[r].pc \in Started
    /\ post[r2].pc \in Started


\* ------------------------------------------- claims on POST /session, again
\* C19: once a line has a conference id, no later operation changes it to
\* another id or clears it.
C19_ConferenceIdKept ==
  [][\A l \in LineIds :
       /\ hasLine(production.lines, l)
       /\ getLine(production.lines, l).smbConferenceId # 0
       /\ hasLine(production'.lines, l)
       => getLine(production'.lines, l).smbConferenceId
            = getLine(production.lines, l).smbConferenceId]_vars


\* C20: when the endpoint description of the bridge lacks audio or its ssrcs,
\* POST /session ends with an error: the reply is 500 without sessionId and
\* sdp, and the stored session gets no endpoint id and no description.
C20_IncompleteDescriptionRejected ==
  \A r \in Posts :
    post[r].endpoint \in {"noaudio", "nossrcs"}
      => /\ post[r].pc = "done"
         /\ post[r].status = 500
         /\ ~post[r].sdp
         /\ post[r].sessionId \in DOMAIN sessions
              => /\ ~sessions[post[r].sessionId].sessionDescription
                 /\ sessions[post[r].sessionId].endpointId = 0

\* C20: a request whose endpoint description lacked audio or ssrcs was
\* answered 500; the session it had stored is still there, without a
\* description.
C20_Witness ==
  \E r \in Posts :
    /\ post[r].endpoint \in {"noaudio", "nossrcs"}
    /\ post[r].status = 500
    /\ post[r].sessionId \in DOMAIN sessions
    /\ ~sessions[post[r].sessionId].sessionDescription


\* ------------------------------------------------- claims on error replies
\* C21: a request that names an unknown session is answered 404 or 410, never
\* 500: the heartbeat and DELETE /session/:sessionId for an id no session was
\* ever stored under.
C21_UnknownIsNotFound ==
  /\ hb.status # 0 /\ hb.sessionId = UnknownId => hb.status \in {404, 410}
  /\ del.status # 0 /\ del.sessionId = UnknownId
       => del.status \in {404, 410}


C25_NoBridgeRetry ==
  /\ \A r \in Posts :
       post[r].conferenceCalls <= 1 /\ post[r].endpointCalls <= 1
  /\ \A p \in Patches :
       patch[p].smbCalls <= 1 /\ patch[p].reads <= PatchRetries + 1

\* C25: a POST /session request whose createEndpoint call failed has ended
\* with 500 after that one call, and a PATCH request has read the session
\* more than once.
C25_Witness ==
  /\ \E r \in Posts :
       /\ post[r].pc = "done" /\ post[r].status = 500
       /\ post[r].endpoint = "failed"
       /\ post[r].conferenceCalls = 1 /\ post[r].endpointCalls = 1
  /\ \E p \in Patches : patch[p].reads > 1


\* The bridge ids callers report about: those of the pool and one of no
\* instance.
ReportedIds == 1..(MaxBridges + 1)

\* C26: recordFailure(bridgeId) adds one to the consecutive-failure counter
\* of exactly the named instance and marks it unhealthy when the counter
\* exceeds 2, recordSuccess(bridgeId) sets that instance's counter to 0 and
\* marks it healthy, both without a probe; every other instance is unchanged
\* and a bridgeId that matches no instance changes nothing.
C26_ReportChangesNamedInstance ==
  /\ \A bridgeId \in ReportedIds :
       LET F == poolRecordFailure(bridges, bridgeId)
           S == poolRecordSuccess(bridges, bridgeId)
       IN  /\ DOMAIN F = DOMAIN bridges /\ DOMAIN S = DOMAIN bridges
           /\ \A i \in DOMAIN bridges :
                IF bridges[i].id = bridgeId
                THEN /\ F[i].consecutiveFailures
                          = bridges[i].consecutiveFailures + 1
                     /\ F[i].healthy
                          = (bridges[i].healthy
                               /\ F[i].consecutiveFailures <= 2)
                     /\ S[i].consecutiveFailures = 0
                     /\ S[i].healthy
                     /\ F[i].id = bridgeId /\ S[i].id = bridgeId
                     /\ F[i].weight = bridges[i].weight
                     /\ S[i].weight = bridges[i].weight
                ELSE F[i] = bridges[i] /\ S[i] = bridges[i]
  /\ \A i \in DOMAIN bridges :
       /\ history[i].last = "reported success"
            => bridges[i].consecutiveFailures = 0 /\ bridges[i].healthy
       /\ history[i].last = "reported failure"
            => /\ bridges[i].consecutiveFailures > 0
               /\ bridges[i].consecutiveFailures > 2 => ~bridges[i].healthy

\* An instance no probe has touched is unhealthy through reported failures
\* alone, next to an instance those reports left as constructed.
C26_Witness ==
  \E i, j \in DOMAIN bridges :
    /\ i # j
    /\ history[i].last = "reported failure" /\ history[i].probes = 0
    /\ bridges[i].consecutiveFailures = 3 /\ ~bridges[i].healthy
    /\ history[j].last = "none"
    /\ bridges[j].consecutiveFailures = 0 /\ bridges[j].healthy


\* A step that is a probe of instance i settling or a report about it.
ProbeOrReport(i) ==
  \/ \E ok \in BOOLEAN : Probe(i, ok)
  \/ PoolRecordFailure(i)
  \/ PoolRecordSuccess(i)

\* A step of a caller of getBridge or getSnapshot, or a write by that caller
\* to what it was handed.
SnapshotStep == selected' # selected \/ snap' # snap \/ metadata' # metadata

\* Once the pool is constructed, an instance changes only in a probe of it
\* or a report about it, and getBridge, getSnapshot and writes to the
\* snapshots they returned leave every instance's healthy flag,
\* consecutive-failure counter and weight as they were.
HealthOwnedByPool ==
  /\ \A i \in DOMAIN bridges :
       bridges'[i] # bridges[i] => ProbeOrReport(i)
  /\ SnapshotStep => bridges' = bridges

\* C27, as stated: the health flag and failure counter of every instance
\* change only through probe, recordFailure and recordSuccess; getBridge and
\* getSnapshot leave healthy flag, counter and weight unchanged, and no
\* modification of the snapshot they return affects the pool, the metadata
\* of its instances included.
C27_SnapshotIsCopy ==
  [][/\ HealthOwnedByPool
     /\ poolState.st = "running" => metadata' = metadata]_vars

\* C27, amended: the health flag and failure counter of every instance
\* change only through probe, recordFailure and recordSuccess; getBridge and
\* getSnapshot leave healthy flag, counter and weight unchanged, and
\* assigning a field of the snapshot they return does not affect the pool;
\* the metadata object of a snapshot is the instance's own.
C27_SnapshotFieldsAreCopies == [][HealthOwnedByPool]_vars

\* The caller holds a snapshot of the first instance that it has marked
\* unhealthy and whose weight it has lowered, while the instance, never
\* probed or reported about, is healthy with its configured weight.
C27_Witness ==
  /\ poolState.st = "running"
  /\ \E k \in DOMAIN snap :
       /\ snap[k].id = 1
       /\ ~snap[k].healthy /\ snap[k].weight = 1
  /\ history[1].last = "none"
  /\ bridges[1].healthy /\ bridges[1].weight = 3
  /\ bridges[1].consecutiveFailures = 0


\* ------------------------------------------------ claims on deleted sessions
\* The ids updateSession may be called with: those of stored sessions, of
\* sessions once stored, and of no session.
UpdatedIds == everSaved \cup {UnknownId}

\* C28: once a session record is deleted, by DELETE /session or by the
\* expiry of the store, no heartbeat, PATCH /session or updateSession for its
\* id stores a record under that id again: updateSession on an id without a
\* stored record returns false and stores nothing, with MongoDB and with
\* CouchDB, also when the delete comes between the read and the write of an
\* update in progress.
C28_NoRecordAfterDelete ==
  /\ [](\A sid \in UpdatedIds \ DOMAIN sessions :
          /\ updateSession(sessions, sid, PatchUpdates) = sessions
          /\ ~updateSessionMatched(sessions, sid)
          /\ updateUserLastSeen(sessions, sid, now) = sessions)
  /\ [][/\ \A sid \in everSaved :
            sid \notin DOMAIN sessions => sid \notin DOMAIN sessions'
        /\ \A sid \in 1..NumDocs :
            couch.docs[sid].deleted => couch'.docs[sid] = couch.docs[sid]
        /\ (/\ couch.upd.pc # "done" /\ couch'.upd.pc = "done"
            /\ ~found(couch.docs[couch'.upd.sessionId]))
             => /\ couch'.upd.result = "false"
                /\ couch'.docs = couch.docs]_vars

\* With CouchDB, an update had read the document, the delete came before its
\* write, and the update has returned false with the document still deleted.
C28_Witness ==
  /\ couch.upd.pc = "done"
  /\ couch.upd.rev > 0
  /\ couch.upd.result = "false"
  /\ couch.docs[couch.upd.sessionId].deleted
  /\ couch.del.sessionId = couch.upd.sessionId
  /\ couch.del.result = "true"


\* ---------------------------------------------- claims on affinity selection
\* The candidate lists of the pool as it is.
CandidateLists == {candidates(bridges, a) : a \in BOOLEAN}

\* The values hash % weightSum takes over the hashes, in halves.
Residues(c) ==
  {Halves(h) % cursorAt(c, Len(c)) : h \in 0..(cursorAt(c, Len(c)) - 1)}

\* The candidates whose range of cumulative weight holds the residue.
Hit(c, r) ==
  {i \in DOMAIN c : cursorAt(c, i - 1) <= r /\ r < cursorAt(c, i)}

\* getBridge with a non-empty key and more than one candidate returns the
\* first candidate whose cumulative weight exceeds hash(key) mod the sum of
\* the candidates' weights; the hash is not negative, and the affinity
\* branch always selects, so that the random branch is not entered.
AffinityByResidue ==
  /\ [](\A key \in AffinityKeys : hash(key) >= 0)
  /\ [](\A c \in CandidateLists : \A key \in AffinityKeys \ {<<>>} :
          Len(c) > 1 =>
            /\ selectByAffinity(c, key) # 0
            /\ Picks(c, key) = {0})
  /\ [](\A c \in CandidateLists : \A r \in Residues(c) :
          Cardinality(Hit(c, r)) = 1)
  /\ [][LET c == candidates(bridges, selected'.allowUnhealthy)
            r == Halves(hash(selected'.affinityKey)) % cursorAt(c, Len(c))
        IN  (/\ selected' # selected
             /\ selected'.affinityKey # <<>>
             /\ Len(c) > 1)
              => \A i \in Hit(c, r) : selected'.id = c[i].id]_vars

SettlesAt(i) == probing'[i] = probing[i] - 1

\* C30: a failed probe of one instance prevents neither the probes of the
\* other instances in the same tick nor the probes of any instance in later
\* ticks: a response that is not ok and a thrown fetch are each turned into
\* one more consecutive failure of that instance and into nothing else, every
\* tick starts a probe of every instance whatever the instances' health, and
\* a probe in flight can settle whatever became of the others.
C30_FailedProbeStopsNothing ==
  /\ [][\A i \in DOMAIN bridges :
          SettlesAt(i) =>
            /\ history'[i].last = "probe failed"
                 => bridges'[i].consecutiveFailures
                      = bridges[i].consecutiveFailures + 1
            /\ history'[i].last \in {"probe failed", "probe ok"}
            /\ \A j \in DOMAIN bridges \ {i} :
                 bridges'[j] = bridges[j] /\ probing'[j] = probing[j]]_vars
  /\ [][probing' # probing /\ (\A i \in DOMAIN bridges : ~SettlesAt(i))
          => \A i \in DOMAIN bridges :
               probing'[i] = StartedMore(probing[i])]_vars
  /\ [](poolState.st = "running" => ENABLED ProbeTick)
  /\ [](\A j \in DOMAIN bridges :
          probing[j] > 0 => ENABLED ProbeSettle(j, "ok"))

\* One instance is unhealthy after failed probes, another was probed with
\* success, and a later tick has started a probe of each of them.
C30_Witness ==
  \E i, j \in DOMAIN bridges :
    /\ i # j
    /\ ~bridges[i].healthy /\ history[i].last = "probe failed"
    /\ bridges[j].healthy /\ history[j].last = "probe ok"
    /\ probing[i] > 0 /\ probing[j] > 0


\* --------------------------------------- claims on the queue's key map
\* C31: the queue has an entry for a key exactly while an operation under
\* that key waits or runs, the entry lists exactly those operations, and
\* once every submitted operation has settled the key map is empty.
C31_EntryWhilePending ==
  /\ DOMAIN queue = {l \in LineIds : PendingUnder(l) # {}}
  /\ \A l \in DOMAIN queue :
       /\ Len(queue[l]) = Cardinality(PendingUnder(l))
       /\ {queue[l][i] : i \in DOMAIN queue[l]} = PendingUnder(l)
  /\ (\A l \in LineIds : PendingUnder(l) = {}) => queue = <<>>

\* Operations were submitted under two keys, all of them have settled, and
\* the key map is empty again.
C31_Witness ==
  /\ queue = <<>>
  /\ \E r, r2 \in Posts :
       /\ post[r].lineId # post[r2].lineId
       /\ post[r].lineId # 0 /\ post[r2].lineId # 0
       /\ post[r].pc \notin Started \cup {"idle", "queued", "setup"}
       /\ post[r2].pc \notin Started \cup {"idle", "queued", "setup"}
       /\ post[r].smbConferenceId # 0 /\ post[r2].smbConferenceId # 0


\* ------------------------------------------- claims on the storage backends
\* C32: after every sequence of saveUserSession, updateSession and
\* deleteUserSession calls the two backends hold the same session ids, have
\* returned the same results from updateSession and deleteUserSession, and
\* hold the same lastSeenAt for every stored session; an updateSession that
\* carried a numeric lastSeen has stored that instant as lastSeenAt in both.
C32_BackendsAgree ==
  /\ DOMAIN sessions = {sid \in 1..NumDocs : found(couch.docs[sid])}
  /\ dbCall.mongo = dbCall.couch
  /\ \A sid \in DOMAIN sessions :
       couch.docs[sid].lastSeenAt = mongoLastSeenAt(sessions, sid)
  /\ (dbCall.op = "update" /\ dbCall.mongo)
       => /\ mongoLastSeenAt(sessions, dbCall.sessionId) = dbCall.lastSeen
          /\ couch.docs[dbCall.sessionId].lastSeenAt = dbCall.lastSeen

\* The part of it that holds: the same ids and the same results.
SameIdsAndResults ==
  /\ DOMAIN sessions = {sid \in 1..NumDocs : found(couch.docs[sid])}
  /\ dbCall.mongo = dbCall.couch


\* -------------------------------------------- claims on the derived state
\* C33: whatever probes settled and whatever was reported, an instance is
\* unhealthy only with a consecutive-failure counter of at least 3, its state
\* is 'degraded' exactly when it is healthy with a counter of 1 or 2, and its
\* state is 'healthy' exactly when the counter is 0.
C33_StateFollowsCounter ==
  \A i \in DOMAIN bridges :
    LET b == bridges[i] IN
    /\ ~b.healthy => b.consecutiveFailures >= 3
    /\ state(b) = "degraded"
         <=> (b.healthy /\ b.consecutiveFailures \in {1, 2})
    /\ state(b) = "healthy" <=> b.consecutiveFailures = 0
    /\ state(b) = "unhealthy" <=> ~b.healthy

\* An instance is degraded with a counter of 2 after one failed probe and one
\* reported failure, next to an instance that failed probes and reports
\* made unhealthy.
C33_Witness ==
  \E i, j \in DOMAIN bridges :
    /\ state(bridges[i]) = "degraded"
    /\ bridges[i].consecutiveFailures = 2
    /\ history[i].probes = 1 /\ history[i].last = "reported failure"
    /\ state(bridges[j]) = "unhealthy"
    /\ history[j].probes >= 1 /\ history[j].last = "reported failure"


\* ------------------------------------- claims on writes of conference ids
\* The requests whose setLineConferenceId call has completed.
WroteConferenceId ==
  {r \in Posts : /\ post[r].conferenceCalls = 1
                 /\ post[r].smbConferenceId # 0
                 /\ post[r].pc \in {"create", "endpoint", "update", "connect",
                                    "done"}}

\* C34: setLineConferenceId for line A changes only line A's conference id:
\* when it has run concurrently with setLineConferenceId for another line B
\* of the production and both have completed, line A holds the id written
\* for A and line B the id written for B.
C34_NoWriteLost ==
  \A r, r2 \in WroteConferenceId :
    post[r].lineId # post[r2].lineId
      => /\ getLine(production.lines, post[r].lineId).smbConferenceId
              = post[r].smbConferenceId
         /\ getLine(production.lines, post[r2].lineId).smbConferenceId
              = post[r2].smbConferenceId

\* ----------------------------------------------- claims on production ids
\* C35: production ids are unique and never reused: getNextSequence hands
\* out strictly growing ids, so that no two addProduction calls, concurrent
\* ones included, receive the same id; every stored production has an id
\* that was handed out; the id of a deleted production is not stored again.
C35_IdsUniqueNeverReused ==
  /\ \A i, j \in DOMAIN seqs.assigned :
       i < j => seqs.assigned[i] < seqs.assigned[j]
  /\ \A a, b \in Adds :
       (a # b /\ seqs.call[a].pc = "insert" /\ seqs.call[b].pc = "insert")
         => seqs.call[a].id # seqs.call[b].id
  /\ seqs.stored \subseteq {seqs.assigned[i] : i \in DOMAIN seqs.assigned}
  /\ seqs.stored \cap seqs.gone = {}

\* Two ids have been handed out by the CouchDB backend, a concurrent call
\* has met the 409 of the counter document, and a production was deleted.
C35_Witness ==
  /\ couch.backend = "couchdb"
  /\ Len(seqs.assigned) >= 2
  /\ seqs.conflicted
  /\ seqs.gone # {}

\* ------------------------------------------- claims on the removal of lines
\* C36: in every interleaving of DELETE line requests with POST /session and
\* PATCH /session requests for the line, no step removes a line on which an
\* active session that is not expired exists: the check for participants and
\* the removal behave as one step.
C36_NoRemovalWhileActive ==
  [][\A l \in DelLineIds :
       (hasLine(production.lines, l) /\ ~hasLine(production'.lines, l))
         => ~ActiveOn(l)]_vars

\* ------------------------------------- claims on failed session requests
\* C37: a POST /session request that is answered otherwise than 201 leaves
\* the stored sessions that are not expired as they were before it: none of
\* them is the session of the failed request.
C37_FailedPostLeavesNoSession ==
  \A r \in Posts :
    (post[r].pc = "done" /\ post[r].status # 201)
      => post[r].sessionId \notin getActiveUsers(sessions)

\* ------------------------------------ claims on the long poll's resources
RECURSIVE Registered(_)
\* The number of 'users:change' listeners the requests of Q have registered.
Registered(Q) ==
  IF Q = {} THEN 0
  ELSE LET q == CHOOSE x \in Q : TRUE
       IN poll[q].listeners + Registered(Q \ {q})

\* C38: a long-poll request has one listener registered and its timer armed
\* while it waits, and neither once it has resolved, by notification or by
\* timeout: the registered 'users:change' listeners are as many as the
\* requests still waiting.
C38_ListenersAreWaiting ==
  /\ \A q \in Polls :
       /\ poll[q].listeners = IF poll[q].pc = "waiting" THEN 1 ELSE 0
       /\ poll[q].timer <=> poll[q].pc = "waiting"
  /\ Registered(Polls) = Cardinality({q \in Polls : poll[q].pc = "waiting"})

\* One request was woken by a notification and another by its timer, and
\* both have answered.
C38_Witness ==
  \E q, o \in Polls :
    /\ poll[q].pc = "done" /\ poll[q].woken = "change"
    /\ poll[o].pc = "done" /\ poll[o].woken = "timeout"

\* --------------------------------------------- claims on the routes' scopes
\* C39: the handler of a route that creates, modifies or deletes a
\* production or a line runs only for a user with the 'admin' or 'engineer'
\* scope; a request of a user with neither, or with no user, is answered 403
\* and changes nothing.
C39_OnlyEngineersChange ==
  /\ http.ran => hasRequiredScopes(http.user, requireEngineer)
  /\ (http.pc = "done" /\ ~hasRequiredScopes(http.user, requireEngineer))
       => http.status = 403 /\ ~http.changed

\* What holds of the routes registered with the preHandler: all six but
\* DELETE /production/:productionId.
GuardedRoutesRequireEngineer ==
  http.route # "DELETE /production/:productionId" => C39_OnlyEngineersChange

====
